---- MODULE Spec2Model ----
(***************************************************************************)
(* Model of the memory-management simulator.                               *)
(*                                                                         *)
(* The allocator (src/allocator/MemoryManager.cpp) keeps its block headers *)
(* in-band, inside the arena std::vector<char> physicalMemory, and reaches *)
(* them by pointer arithmetic and reinterpret_cast.  The model therefore   *)
(* keeps the arena itself: a function from 8-byte word index to the 64-bit *)
(* value stored there.  A BlockHeader at byte address p is the five words  *)
(* at p+0 (size), p+8 (is_free, one byte), p+16 (block_id), p+24 (next),   *)
(* p+32 (prev).  Nothing else is ever written into the arena, so a header  *)
(* that stopped being a block stays in memory as stale bytes, and a new    *)
(* header created by splitBlock reads whatever lies under its next/prev.   *)
(*                                                                         *)
(* 64-bit values are integers read modulo 2^64 and kept by their           *)
(* representative of least magnitude: 2^64 - k is the integer -k.  Sums    *)
(* and differences are then exact, and order is the unsigned order ULt.    *)
(* A pointer into the arena is the integer Base + offset.                  *)
(*                                                                         *)
(* The cache simulator (src/cache/CacheSimulator.cpp) is a second object,  *)
(* independent of the allocator: two levels of sets of lines, modelled as  *)
(* records of the class's members.  Spec runs the allocator with no cache  *)
(* constructed; CacheSpec runs the cache beside a fresh allocator.         *)
(***************************************************************************)
EXTENDS Integers, Sequences, FiniteSets, TLC

\* ---------------------------------------------------------------- bounds
MemWords == 18            \* arena size in 8-byte words
MaxAllocs == 4            \* successful allocations per run (ids 1..MaxAllocs)
MaxFails == 1             \* failed allocations per run

\* ------------------------------------------------------ program constants
WORD == 8                 \* sizeof(size_t), sizeof(BlockHeader*)
H == 40                   \* sizeof(BlockHeader)
MinRemainder == 8         \* the "+ 8" of allocate and splitBlock
OffSize == 0              \* offsetof(BlockHeader, size)
OffFree == 8              \* offsetof(BlockHeader, is_free)
OffId == 16               \* offsetof(BlockHeader, block_id)
OffNext == 24             \* offsetof(BlockHeader, next)
OffPrev == 32             \* offsetof(BlockHeader, prev)
Base == 16777216          \* physicalMemory.data(), some 256-aligned heap address
NULL == 0                 \* nullptr
FIRST_FIT == 0
BEST_FIT == 1
WORST_FIT == 2

M == MemWords * WORD      \* totalMemorySize
firstBlock == Base        \* firstBlock = physicalMemory.data(), never reassigned

\* The request sizes tried: zero, two small sizes and the size of the arena
\* (more than fits); and 2^64 - H, for which size + sizeof(BlockHeader)
\* wraps to 0.
AllocSizes == {0, 8, 32, M}
WrapSizes == {-H}
Sizes == AllocSizes \cup WrapSizes

\* --------------------------------------------------- unsigned 64-bit order
ULt(a, b) == IF (a < 0) = (b < 0) THEN a < b ELSE b < 0
UGe(a, b) == ~ULt(a, b)
UGt(a, b) == ULt(b, a)

\* ------------------------------------------------------------- the arena
\* A word of the arena may be accessed at address a.
InArena(a) == a >= Base /\ a + WORD <= Base + M /\ (a - Base) % WORD = 0
\* All five fields of a header at p lie in the arena.
HdrOk(p) == InArena(p) /\ InArena(p + OffPrev)

Ld(s, a) == s.mem[(a - Base) \div WORD]
\* An access through an address that is no word of the arena ends the run.
\* Far from the arena (a small integer or a wrapped value read as a pointer)
\* the page is unmapped and the process takes a segmentation fault ("segv");
\* next to the arena, or inside it off the word grid, the access reaches
\* memory this model does not keep ("lost").
Wild(a) == IF a >= Base - M /\ a < Base + 2 * M THEN "lost" ELSE "segv"
Fault(s, a) == IF s.fault # "none" THEN s ELSE [s EXCEPT !.fault = Wild(a)]
Lost(s) == IF s.fault # "none" THEN s ELSE [s EXCEPT !.fault = "lost"]

St(s, a, v) ==
    IF s.fault # "none" THEN s
    ELSE IF ~InArena(a) THEN Fault(s, a)
    ELSE [s EXCEPT !.mem[(a - Base) \div WORD] = v]
\* bool is one byte: storing is_free replaces the low byte of its word.
StByte(s, a, b) ==
    IF s.fault # "none" THEN s
    ELSE IF ~InArena(a) THEN Fault(s, a)
    ELSE LET old == Ld(s, a)
         IN [s EXCEPT !.mem[(a - Base) \div WORD] = old - (old % 256) + b]
LdByte(s, a) == Ld(s, a) % 256

Size(s, p) == Ld(s, p + OffSize)
IsFree(s, p) == LdByte(s, p + OffFree) # 0
Id(s, p) == Ld(s, p + OffId)
NextOf(s, p) == Ld(s, p + OffNext)
PrevOf(s, p) == Ld(s, p + OffPrev)

\* std::map insert-or-assign and erase
Put(f, k, v) == [x \in DOMAIN f \cup {k} |-> IF x = k THEN v ELSE f[x]]
Erase(f, k) == [x \in DOMAIN f \ {k} |-> f[x]]

\* ---------------------------------------------------------- the free list
\* Every operation is a sequence of steps, each an operator from the manager
\* before the step to the manager after it; a step reads what the steps
\* before it wrote.  A step on a manager that has faulted changes nothing.
\*
\* block->prev->next = block->next, or freeListHead = block->next
removeFromFreeList_prev(s, block) ==
    IF PrevOf(s, block) # NULL
    THEN St(s, PrevOf(s, block) + OffNext, NextOf(s, block))
    ELSE [s EXCEPT !.freeListHead = NextOf(s, block)]
\* block->next->prev = block->prev
removeFromFreeList_next(s, block) ==
    IF s.fault # "none" THEN s
    ELSE IF NextOf(s, block) # NULL
    THEN St(s, NextOf(s, block) + OffPrev, PrevOf(s, block))
    ELSE s
\* block->next = nullptr; block->prev = nullptr
removeFromFreeList_clear(s, block) ==
    St(St(s, block + OffNext, NULL), block + OffPrev, NULL)

removeFromFreeList(s, block) ==
    IF s.fault # "none" THEN s
    ELSE IF ~HdrOk(block) THEN Fault(s, block)
    ELSE removeFromFreeList_clear(
             removeFromFreeList_next(
                 removeFromFreeList_prev(s, block), block), block)

\* the "safety check": a block that looks linked is unlinked first
addToFreeList_unlink(s, block) ==
    IF PrevOf(s, block) # NULL \/ NextOf(s, block) # NULL
       \/ block = s.freeListHead
    THEN removeFromFreeList(s, block)
    ELSE s
\* block->next = freeListHead; block->prev = nullptr
addToFreeList_link(s, block) ==
    St(St(s, block + OffNext, s.freeListHead), block + OffPrev, NULL)
\* freeListHead->prev = block
addToFreeList_back(s, block) ==
    IF s.fault # "none" THEN s
    ELSE IF s.freeListHead # NULL
    THEN St(s, s.freeListHead + OffPrev, block)
    ELSE s
\* freeListHead = block
addToFreeList_head(s, block) ==
    IF s.fault # "none" THEN s ELSE [s EXCEPT !.freeListHead = block]

addToFreeList(s, block) ==
    IF s.fault # "none" THEN s
    ELSE IF ~HdrOk(block) THEN Fault(s, block)
    ELSE addToFreeList_head(
             addToFreeList_back(
                 addToFreeList_link(
                     addToFreeList_unlink(s, block), block), block), block)

\* -------------------------------------------------------------- placement
\* Each search walks the free list from freeListHead along next and returns
\* [blk |-> the block chosen or NULL, fault |-> how the walk ended].
\* FirstFitFrom without the return inside the loop: the walk goes on to the
\* end of the list and the last block that fits wins.
RECURSIVE FirstFitFrom_noReturn(_, _, _, _)
FirstFitFrom_noReturn(s, size, current, seen) ==
    IF current = NULL THEN [blk |-> NULL, fault |-> "none"]
    ELSE IF ~HdrOk(current) THEN [blk |-> NULL, fault |-> Wild(current)]
    ELSE IF current \in seen THEN [blk |-> NULL, fault |-> "hang"]
    ELSE LET rest == FirstFitFrom_noReturn(s, size, NextOf(s, current),
                                           seen \cup {current})
         IN IF rest.fault = "none" /\ rest.blk = NULL
               /\ IsFree(s, current) /\ UGe(Size(s, current), size)
            THEN [blk |-> current, fault |-> "none"]
            ELSE rest

RECURSIVE FirstFitFrom(_, _, _, _)
FirstFitFrom(s, size, current, seen) ==
    IF current = NULL THEN [blk |-> NULL, fault |-> "none"]
    ELSE IF ~HdrOk(current) THEN [blk |-> NULL, fault |-> Wild(current)]
    ELSE IF IsFree(s, current) /\ UGe(Size(s, current), size)
         THEN [blk |-> current, fault |-> "none"]
    \* back at a block already passed: the loop has no exit
    ELSE IF current \in seen THEN [blk |-> NULL, fault |-> "hang"]
    ELSE FirstFitFrom(s, size, NextOf(s, current), seen \cup {current})

findFirstFit(s, size) == FirstFitFrom(s, size, s.freeListHead, {})

\* BestFitFrom with <= for <: among blocks of equal size the later one wins.
RECURSIVE BestFitFrom_le(_, _, _, _, _)
BestFitFrom_le(s, size, current, best, seen) ==
    IF current = NULL THEN [blk |-> best, fault |-> "none"]
    ELSE IF ~HdrOk(current) THEN [blk |-> NULL, fault |-> Wild(current)]
    ELSE IF current \in seen THEN [blk |-> best, fault |-> "none"]
    ELSE LET better == IsFree(s, current) /\ UGe(Size(s, current), size)
                       /\ (best = NULL \/ ~UGt(Size(s, current), Size(s, best)))
         IN BestFitFrom_le(s, size, NextOf(s, current),
                           IF better THEN current ELSE best, seen \cup {current})

RECURSIVE BestFitFrom(_, _, _, _, _)
BestFitFrom(s, size, current, best, seen) ==
    IF current = NULL THEN [blk |-> best, fault |-> "none"]
    ELSE IF ~HdrOk(current) THEN [blk |-> NULL, fault |-> Wild(current)]
    \* on a cyclic list the loop stops at maxIterations with the best so far
    ELSE IF current \in seen THEN [blk |-> best, fault |-> "none"]
    ELSE LET better == IsFree(s, current) /\ UGe(Size(s, current), size)
                       /\ (best = NULL \/ ULt(Size(s, current), Size(s, best)))
         IN BestFitFrom(s, size, NextOf(s, current),
                        IF better THEN current ELSE best, seen \cup {current})

findBestFit(s, size) == BestFitFrom(s, size, s.freeListHead, NULL, {})

\* WorstFitFrom with >= for >: among blocks of equal size the later one wins.
RECURSIVE WorstFitFrom_ge(_, _, _, _, _)
WorstFitFrom_ge(s, size, current, worst, seen) ==
    IF current = NULL THEN [blk |-> worst, fault |-> "none"]
    ELSE IF ~HdrOk(current) THEN [blk |-> NULL, fault |-> Wild(current)]
    ELSE IF current \in seen THEN [blk |-> NULL, fault |-> "hang"]
    ELSE LET better == IsFree(s, current) /\ UGe(Size(s, current), size)
                       /\ (worst = NULL \/ UGe(Size(s, current), Size(s, worst)))
         IN WorstFitFrom_ge(s, size, NextOf(s, current),
                            IF better THEN current ELSE worst, seen \cup {current})

RECURSIVE WorstFitFrom(_, _, _, _, _)
WorstFitFrom(s, size, current, worst, seen) ==
    IF current = NULL THEN [blk |-> worst, fault |-> "none"]
    ELSE IF ~HdrOk(current) THEN [blk |-> NULL, fault |-> Wild(current)]
    ELSE IF current \in seen THEN [blk |-> NULL, fault |-> "hang"]
    ELSE LET better == IsFree(s, current) /\ UGe(Size(s, current), size)
                       /\ (worst = NULL \/ UGt(Size(s, current), Size(s, worst)))
         IN WorstFitFrom(s, size, NextOf(s, current),
                         IF better THEN current ELSE worst, seen \cup {current})

findWorstFit(s, size) == WorstFitFrom(s, size, s.freeListHead, NULL, {})

\* findBlock searching from the other end of the list after every other
\* successful allocation.
findBlock_inTurn(s, size) ==
    IF s.allocationSuccessCount % 2 = 1
    THEN FirstFitFrom_noReturn(s, size, s.freeListHead, {})
    ELSE CASE s.currentStrategy = FIRST_FIT -> findFirstFit(s, size)
           [] s.currentStrategy = BEST_FIT -> findBestFit(s, size)
           [] s.currentStrategy = WORST_FIT -> findWorstFit(s, size)

findBlock(s, size) ==
    CASE s.currentStrategy = FIRST_FIT -> findFirstFit(s, size)
      [] s.currentStrategy = BEST_FIT -> findBestFit(s, size)
      [] s.currentStrategy = WORST_FIT -> findWorstFit(s, size)

\* ------------------------------------------------------------- splitting
\* newBlock->size, is_free and block_id are set; newBlock->next and
\* newBlock->prev are left as found.
splitBlock_header(s, newBlock, remainingSize) ==
    St(StByte(St(s, newBlock + OffSize, remainingSize),
              newBlock + OffFree, 1),
       newBlock + OffId, 0)

splitBlock(s, block, requestedSize) ==
    LET remainingSize == Size(s, block) - requestedSize
        newBlock == block + requestedSize
    IN IF ULt(remainingSize, H + MinRemainder) THEN s
       ELSE addToFreeList(
                St(splitBlock_header(s, newBlock, remainingSize),
                   block + OffSize, requestedSize),
                newBlock)

\* ------------------------------------------------------------ coalescing
\* The loop of coalesceBlocks that looks for the block ending where `block`
\* starts, walking the arena from firstBlock by sizes.  NULL when the walk
\* reaches `block` or the end of the arena first, or never leaves a cycle
\* (the loop then stops at maxIterations).
RECURSIVE PrevFrom(_, _, _, _)
PrevFrom(s, block, current, seen) ==
    IF current = NULL \/ current = block THEN [blk |-> NULL, fault |-> "none"]
    ELSE IF ~HdrOk(current) THEN [blk |-> NULL, fault |-> Wild(current)]
    ELSE IF current \in seen THEN [blk |-> NULL, fault |-> "none"]
    ELSE LET currentEnd == current + Size(s, current)
         IN IF currentEnd = block THEN [blk |-> current, fault |-> "none"]
            ELSE IF ULt(currentEnd, Base + M)
                 THEN PrevFrom(s, block, currentEnd, seen \cup {current})
                 ELSE [blk |-> NULL, fault |-> "none"]

\* into->size += from->size
coalesce_absorb(s, into, from) ==
    St(s, into + OffSize, Size(s, into) + Size(s, from))

\* merge with the next block in physical memory
coalesce_next(s, block) ==
    LET blockEnd == block + Size(s, block)
    IN IF ULt(blockEnd, Base + M)
       THEN IF ~HdrOk(blockEnd) THEN Fault(s, blockEnd)
            ELSE IF IsFree(s, blockEnd)
                 THEN coalesce_absorb(removeFromFreeList(s, blockEnd),
                                      block, blockEnd)
                 ELSE s
       ELSE s

RECURSIVE coalesceFrom(_, _, _)
\* merge into the previous block in physical memory, found == the result of
\* the search for it, and go on from there
coalesce_prev(s, block, found, depth) ==
    IF s.fault # "none" THEN s
    ELSE IF found.fault # "none" THEN [s EXCEPT !.fault = found.fault]
    ELSE IF found.blk # NULL /\ IsFree(s, found.blk)
         THEN coalesceFrom(
                  coalesce_absorb(removeFromFreeList(s, block), found.blk, block),
                  found.blk, depth + 1)
         ELSE s

coalesce_search(s, block, depth) ==
    coalesce_prev(s, block, PrevFrom(s, block, firstBlock, {}), depth)

coalesceFrom(s, block, depth) ==
    IF s.fault # "none" THEN s
    ELSE IF depth > MemWords THEN Lost(s)
    ELSE IF ~HdrOk(block) THEN Fault(s, block)
    ELSE coalesce_search(coalesce_next(s, block), block, depth)

coalesceBlocks(s, block) == coalesceFrom(s, block, 0)

\* ------------------------------------------------------- the MemoryManager
\* MemoryManager(totalSize, FIRST_FIT) followed by initializeMemory().
initializeMemory ==
    [mem |-> [w \in 0 .. MemWords - 1 |->
                 CASE w = OffSize \div WORD -> M
                   [] w = OffFree \div WORD -> 1
                   [] OTHER -> 0],
     freeListHead |-> firstBlock,
     currentStrategy |-> FIRST_FIT,
     nextBlockId |-> 1,
     addressToHeader |-> [a \in {firstBlock} |-> firstBlock],
     idToHeader |-> [i \in {} |-> NULL],
     idToRequestedSize |-> [i \in {} |-> 0],
     allocationSuccessCount |-> 0,
     allocationFailureCount |-> 0,
     totalRequestedSize |-> 0,
     totalAllocatedSize |-> 0,
     fault |-> "none"]

\* allocate(size): [s |-> the manager afterwards, ptr |-> the pointer returned].
\* The steps of allocate once a block is found.
\* allocate_split cutting every block larger than requiredSize, with no room
\* asked for a header and 8 bytes in the remainder.
allocate_split_always(s, block, requiredSize) ==
    IF UGt(Size(s, block), requiredSize)
    THEN addToFreeList(
             St(splitBlock_header(s, block + requiredSize,
                                  Size(s, block) - requiredSize),
                block + OffSize, requiredSize),
             block + requiredSize)
    ELSE s

\* if (block->size >= requiredSize + sizeof(BlockHeader) + 8) splitBlock(...)
allocate_split(s, block, requiredSize) ==
    IF UGe(Size(s, block), requiredSize + H + MinRemainder)
    THEN splitBlock(s, block, requiredSize)
    ELSE s
\* allocate_mark taking the id from the number of live allocations, not from
\* the counter nextBlockId.
allocate_mark_liveCount(s, block) ==
    St(StByte(s, block + OffFree, 0), block + OffId,
       Cardinality(DOMAIN s.idToHeader) + 1)

\* block->is_free = false; block->block_id = nextBlockId++ (the increment is
\* made with the other counters, in allocate_track)
allocate_mark(s, block) ==
    St(StByte(s, block + OffFree, 0), block + OffId, s.nextBlockId)
\* the maps and the counters, and the pointer returned
allocate_track(s, block, size) ==
    IF s.fault # "none" THEN [s |-> s, ptr |-> NULL]
    ELSE [s |-> [s EXCEPT
                   !.nextBlockId = @ + 1,
                   !.addressToHeader = Put(@, block + H, block),
                   !.idToHeader = Put(@, Id(s, block), block),
                   !.idToRequestedSize = Put(@, Id(s, block), size),
                   !.totalAllocatedSize = @ + (Size(s, block) - H),
                   !.allocationSuccessCount = @ + 1],
          ptr |-> block + H]
\* found == the result of the search, made after totalRequestedSize += size
allocate_found(s, found, size) ==
    IF found.fault # "none"
    THEN [s |-> [s EXCEPT !.fault = found.fault], ptr |-> NULL]
    ELSE IF found.blk = NULL
    THEN [s |-> [s EXCEPT !.allocationFailureCount = @ + 1], ptr |-> NULL]
    ELSE allocate_track(
             removeFromFreeList(
                 allocate_mark(
                     allocate_split(s, found.blk, size + H), found.blk),
                 found.blk),
             found.blk, size)

allocate_search(s, size) == allocate_found(s, findBlock(s, size + H), size)

allocate(s, size) ==
    IF size = 0
    THEN [s |-> [s EXCEPT !.allocationFailureCount = @ + 1], ptr |-> NULL]
    ELSE allocate_search([s EXCEPT !.totalRequestedSize = @ + size], size)

isValidPointer(ptr) == ptr # NULL /\ UGe(ptr, Base) /\ ULt(ptr, Base + M)

getHeader(s, ptr) ==
    IF ptr \in DOMAIN s.addressToHeader THEN s.addressToHeader[ptr] ELSE NULL

\* The steps of deallocate(void*) on a block that is allocated.
\* totalAllocatedSize -= ...; idToRequestedSize.erase(block->block_id)
deallocate_account(s, block) ==
    [s EXCEPT !.totalAllocatedSize = @ - (Size(s, block) - H),
              !.idToRequestedSize = Erase(@, Id(s, block))]
\* addressToHeader.erase(ptr); idToHeader.erase(block->block_id); return true
deallocate_untrack(s, ptr, block) ==
    IF s.fault # "none" THEN [s |-> s, ok |-> FALSE]
    ELSE [s |-> [s EXCEPT !.addressToHeader = Erase(@, ptr),
                          !.idToHeader = Erase(@, Id(s, block))],
          ok |-> TRUE]
deallocate_release(s, ptr, block) ==
    deallocate_untrack(
        coalesceBlocks(
            addToFreeList(
                deallocate_account(StByte(s, block + OffFree, 1), block),
                block),
            block),
        ptr, block)

\* deallocate_block without the test of block->is_free.
deallocate_block_noFreeTest(s, ptr, block) ==
    IF block = NULL THEN [s |-> s, ok |-> FALSE]
    ELSE IF ~HdrOk(block) THEN [s |-> Fault(s, block), ok |-> FALSE]
    ELSE deallocate_release(s, ptr, block)

\* deallocate(void* ptr) from block = getHeader(ptr) on.
deallocate_block(s, ptr, block) ==
    IF block = NULL THEN [s |-> s, ok |-> FALSE]
    ELSE IF ~HdrOk(block) THEN [s |-> Fault(s, block), ok |-> FALSE]
    ELSE IF IsFree(s, block) THEN [s |-> s, ok |-> FALSE]
    ELSE deallocate_release(s, ptr, block)

\* deallocate(void* ptr): [s |-> the manager afterwards, ok |-> the result].
deallocate(s, ptr) ==
    IF ~isValidPointer(ptr) THEN [s |-> s, ok |-> FALSE]
    ELSE deallocate_block(s, ptr, getHeader(s, ptr))

\* deallocate(size_t block_id)
deallocateId(s, block_id) ==
    IF block_id \notin DOMAIN s.idToHeader THEN [s |-> s, ok |-> FALSE]
    ELSE deallocate(s, s.idToHeader[block_id] + H)

\* setAllocationStrategy rebuilding the arena when the strategy changes.
setAllocationStrategy_rebuild(s, strategy) ==
    IF strategy = s.currentStrategy THEN s
    ELSE [initializeMemory EXCEPT !.currentStrategy = strategy]

setAllocationStrategy(s, strategy) ==
    IF strategy = s.currentStrategy THEN s
    ELSE [s EXCEPT !.currentStrategy = strategy]

\* -------------------------------------------------------------- observers
\* The walk of dumpMemory, getExternalFragmentation and getLargestFreeBlock:
\* from offset 0, block after block by adding sizes, while the offset is less
\* than totalMemorySize.  The offsets visited, in order; the walk is cut where
\* it comes back to an offset already visited (the program's loops then spin
\* until their iteration limit) or leaves the words of the arena.
RECURSIVE WalkFrom(_, _, _)
WalkFrom(s, address, visited) ==
    IF ~ULt(address, M) \/ ~HdrOk(Base + address) THEN visited
    ELSE IF \E i \in 1 .. Len(visited) : visited[i] = address THEN visited
    ELSE WalkFrom(s, address + Size(s, Base + address), Append(visited, address))

Walk(s) == WalkFrom(s, 0, <<>>)

\* The blocks dumpMemory prints: offset, size, free flag and id of each.
Blocks(s) ==
    [i \in 1 .. Len(Walk(s)) |->
        LET o == Walk(s)[i]
        IN [offset |-> o, size |-> Size(s, Base + o),
            free |-> IsFree(s, Base + o), id |-> Id(s, Base + o)]]

\* The free list as the searches see it: the headers reached from
\* freeListHead along next, cut at the first one reached twice or outside
\* the arena.
RECURSIVE FreeListFrom(_, _, _)
FreeListFrom(s, current, visited) ==
    IF current = NULL \/ ~HdrOk(current) THEN visited
    ELSE IF \E i \in 1 .. Len(visited) : visited[i] = current THEN visited
    ELSE FreeListFrom(s, NextOf(s, current), Append(visited, current))

FreeList(s) == FreeListFrom(s, s.freeListHead, <<>>)

\* ------------------------------------------------------- the controller
\* StatsManager::StatsManager(): every counter and metric zero.  The doubles
\* are kept as the quotients the manager computes.
StatsManager ==
    [totalAllocations |-> 0, successfulAllocations |-> 0, failedAllocations |-> 0,
     internalFragmentation |-> [num |-> 0, den |-> 1, defined |-> TRUE],
     externalFragmentation |-> [num |-> 0, den |-> 1, defined |-> TRUE],
     memoryUtilization |-> [num |-> 0, den |-> 1, defined |-> TRUE],
     totalMemory |-> 0, usedMemory |-> 0, freeMemory |-> 0,
     l1CacheHits |-> 0, l1CacheMisses |-> 0, l2CacheHits |-> 0, l2CacheMisses |-> 0,
     pageFaults |-> 0, pageHits |-> 0]

\* MemorySimulatorCLI::MemorySimulatorCLI().  The MemoryManager and the
\* CacheSimulator it points to are the variables mm and cache; initialized
\* tells that memoryManager is set, cacheSimulator that cacheSimulator is.
MemorySimulatorCLI ==
    [initialized |-> FALSE,
     cacheSimulator |-> FALSE,
     nextBlockId |-> 1,
     blockIdToAddress |-> << >>,
     addressToBlockId |-> << >>,
     statsManager |-> StatsManager]

\* ------------------------------------------------------------------ state
VARIABLES
    mm,          \* the MemoryManager object, arena included
    last,        \* the last call that changed the manager or repeated the
                 \* successful deallocate before it: its name, its argument,
                 \* its result and the user address concerned
    freedIds,    \* ids of the blocks released so far
    freedPtrs,   \* addresses released since the last successful allocate
    cache,       \* the CacheSimulator object, NULL while none is constructed
    report,      \* the CacheAccessReport of the last access
    accessed,    \* the addresses accessed so far, in order
    cli          \* the MemorySimulatorCLI object: its flags, its id counter,
                 \* its two maps and its StatsManager

mmVars == <<mm, last, freedIds, freedPtrs>>
cacheVars == <<cache, report, accessed>>
cliVars == <<cli>>
vars == <<mm, last, freedIds, freedPtrs, cache, report, accessed, cli>>

\* The addresses tried by deallocate(void*): nullptr, the start of the arena,
\* a word inside the first header, the first address past the arena, and the
\* user address (block + H) of every place the sizes above can put a block.
UserAddrs == {Base + o + H : o \in {0, 8 + H, 32 + H, 8 + H + 8 + H}}
FreeAddrs == {NULL, Base, Base + WORD, Base + M} \cup UserAddrs
FreeIds == 0 .. MaxAllocs + 1
Strategies == {FIRST_FIT, BEST_FIT, WORST_FIT}

Init ==
    /\ mm = initializeMemory
    /\ last = [op |-> "init", arg |-> M, ok |-> TRUE, ptr |-> NULL]
    /\ freedIds = {}
    /\ freedPtrs = {}
    /\ cache = NULL
    /\ report = NULL
    /\ accessed = <<>>
    /\ cli = MemorySimulatorCLI

Running == mm.fault = "none"

\* The call op(arg) repeats the successful deallocate recorded in last.
Again(op, arg) == last.op = op /\ last.ok /\ arg \in {last.arg, last.ptr}

\* What a call of allocate did, from its result r: returned a pointer,
\* or returned nullptr.  (Neither when the process died in the call.)
Succeeded(r) == r.s.fault = "none" /\ r.ptr # NULL
Failed(r) == r.s.fault = "none" /\ r.ptr = NULL

\* allocate(size) has returned r.
Allocated(size, r) ==
    /\ Failed(r) => mm.allocationFailureCount < MaxFails
    /\ mm' = r.s
    /\ last' = [op |-> "allocate", arg |-> size, ok |-> r.ptr # NULL, ptr |-> r.ptr]
    /\ freedPtrs' = IF r.ptr # NULL THEN {} ELSE freedPtrs
    /\ UNCHANGED freedIds

Allocate(size) ==
    /\ Running
    /\ mm.nextBlockId <= MaxAllocs
    /\ Allocated(size, allocate(mm, size))
    /\ UNCHANGED <<cacheVars, cliVars>>

\* The deallocate `op` with argument arg has returned r; when it succeeded it
\* released the block `block`, whose id was id.
Deallocated(op, arg, r, block, id) ==
    /\ mm' = r.s
    /\ last' = IF r.s = mm /\ ~Again(op, arg) THEN last
               ELSE [op |-> op, arg |-> arg, ok |-> r.ok,
                     ptr |-> IF r.ok THEN block + H
                             ELSE IF op = "deallocate_ptr" THEN arg ELSE NULL]
    /\ freedIds' = IF r.ok THEN freedIds \cup {id} ELSE freedIds
    /\ freedPtrs' = IF r.ok
                    THEN freedPtrs \cup {block + H}
                         \cup (IF op = "deallocate_ptr" THEN {arg} ELSE {})
                    ELSE freedPtrs

DeallocatePtr(ptr) ==
    /\ Running
    /\ Deallocated("deallocate_ptr", ptr, deallocate(mm, ptr),
                   getHeader(mm, ptr), Id(mm, getHeader(mm, ptr)))
    /\ UNCHANGED <<cacheVars, cliVars>>

DeallocateId(block_id) ==
    /\ Running
    /\ Deallocated("deallocate_id", block_id, deallocateId(mm, block_id),
                   mm.idToHeader[block_id], block_id)
    /\ UNCHANGED <<cacheVars, cliVars>>

SetStrategy(strategy) ==
    /\ Running
    /\ mm' = setAllocationStrategy(mm, strategy)
    /\ last' = IF mm' = mm THEN last
               ELSE [op |-> "set_strategy", arg |-> strategy, ok |-> TRUE, ptr |-> NULL]
    /\ UNCHANGED <<freedIds, freedPtrs>>
    /\ UNCHANGED <<cacheVars, cliVars>>

Next ==
    \/ \E size \in AllocSizes : Allocate(size)
    \/ \E size \in WrapSizes : Allocate(size)
    \/ \E block_id \in FreeIds : DeallocateId(block_id)
    \/ \E ptr \in FreeAddrs : DeallocatePtr(ptr)
    \/ \E strategy \in Strategies : SetStrategy(strategy)

Spec == Init /\ [][Next]_vars

\* ------------------------------------------------------- notions of the claims
\* The ids of the live allocations and, for each, its block, the address
\* allocate returned for it and the size requested.
LiveIds(s) == DOMAIN s.idToHeader
BlockOf(s, id) == s.idToHeader[id]
AddressOf(s, id) == s.idToHeader[id] + H
RequestedOf(s, id) ==
    IF id \in DOMAIN s.idToRequestedSize THEN s.idToRequestedSize[id] ELSE 0

\* The offsets of the walk are blocks laid end to end from 0 up to M exactly.
Covers(s) ==
    LET b == Blocks(s)
    IN /\ Len(b) >= 1
       /\ b[1].offset = 0
       /\ \A i \in 1 .. Len(b) : b[i].size > 0
       /\ \A i \in 1 .. Len(b) - 1 : b[i + 1].offset = b[i].offset + b[i].size
       /\ b[Len(b)].offset + b[Len(b)].size = M

NoAdjacentFree(s) ==
    LET b == Blocks(s)
    IN \A i \in 1 .. Len(b) - 1 : ~(b[i].free /\ b[i + 1].free)

\* Some free block of the layout has size >= size.
FreeBlockFits(s, size) ==
    \E i \in 1 .. Len(Blocks(s)) : Blocks(s)[i].free /\ UGe(Blocks(s)[i].size, size)

\* ----------------------------------------------------------------- claims

\* C1: after any sequence of allocate, deallocate and set_strategy calls the
\* blocks walked from offset 0 by their sizes cover [0, M) exactly: no gap,
\* no overlap, the last block ending at M.
C1_Coverage == Running => Covers(mm)

\* C2: every live allocation's address is its block's offset + H, its usable
\* range [address, address + requested) lies inside the arena, and the usable
\* ranges of distinct live allocations are disjoint.
C2_LiveRanges ==
    Running =>
        /\ \A id \in LiveIds(mm) :
              /\ AddressOf(mm, id) \in DOMAIN mm.addressToHeader
              /\ mm.addressToHeader[AddressOf(mm, id)] = BlockOf(mm, id)
              /\ UGe(AddressOf(mm, id), Base)
              /\ ~UGt(AddressOf(mm, id) - Base, M)
              /\ ~UGt(RequestedOf(mm, id), M - (AddressOf(mm, id) - Base))
        /\ \A i, j \in LiveIds(mm) :
              i # j =>
                \/ ~UGt(AddressOf(mm, i) + RequestedOf(mm, i), AddressOf(mm, j))
                \/ ~UGt(AddressOf(mm, j) + RequestedOf(mm, j), AddressOf(mm, i))

\* C3: no two physically adjacent blocks are both free, in every reachable
\* state (a freed block is merged with its free neighbours).
C3_NoAdjacentFree == Running => NoAdjacentFree(mm)

\* C4: for n > 0 with n + H not wrapping, allocate(n) succeeds if and only if
\* some free block has size >= n + H.
C4_SucceedsIffFits ==
    Running =>
        \A n \in AllocSizes :
            n > 0 => (Succeeded(allocate(mm, n)) <=> FreeBlockFits(mm, n + H))

\* C5: a failed allocate adds one to the failure counter and changes nothing
\* else in the allocator.
C5_FailedAllocateFrame ==
    Running =>
        \A n \in Sizes :
            Failed(allocate(mm, n)) =>
                allocate(mm, n).s = [mm EXCEPT !.allocationFailureCount = @ + 1]

\* C6: deallocate with a reference that names no currently allocated block
\* (an id that is not live, an address that is not offset + H of a live
\* block) fails and leaves the allocator unchanged.
C6_BadReferenceRejected ==
    Running =>
        /\ \A id \in FreeIds :
              id \notin LiveIds(mm) =>
                  deallocateId(mm, id) = [s |-> mm, ok |-> FALSE]
        /\ \A ptr \in FreeAddrs :
              (\A id \in LiveIds(mm) : AddressOf(mm, id) # ptr) =>
                  deallocate(mm, ptr) = [s |-> mm, ok |-> FALSE]

\* C7: after a successful deallocate of a block, a second deallocate with the
\* same id, or with the same address when no allocate has happened since,
\* fails and leaves the allocator unchanged.
C7_DoubleFree ==
    Running =>
        /\ \A id \in freedIds : deallocateId(mm, id) = [s |-> mm, ok |-> FALSE]
        /\ \A ptr \in freedPtrs : deallocate(mm, ptr) = [s |-> mm, ok |-> FALSE]

\* The id just released has been passed to deallocate once more, and failed.
C7_Witness ==
    /\ Running
    /\ last.op = "deallocate_id" /\ ~last.ok
    /\ last.arg \in freedIds

\* -------------------------------------------------------- placement claims
\* The free blocks that can hold r bytes: as offsets of the layout, and as
\* positions in the free list.
LayoutFits(s, r) ==
    {Blocks(s)[i].offset :
        i \in {j \in 1 .. Len(Blocks(s)) :
                  Blocks(s)[j].free /\ UGe(Blocks(s)[j].size, r)}}
ListFits(s, r) ==
    {i \in 1 .. Len(FreeList(s)) :
        IsFree(s, FreeList(s)[i]) /\ UGe(Size(s, FreeList(s)[i]), r)}
\* Offset of the block a successful allocate placed the allocation in.
Placed(r) == r.ptr - H - Base
\* The layout is well formed: C1 and C3 hold of it.
WellFormed(s) == Covers(s) /\ NoAdjacentFree(s)

\* C8 as stated: under FIRST_FIT a successful allocate(n) uses the free block
\* of lowest physical offset among the free blocks of size >= n + H.
C8_FirstFitLowestOffset ==
    Running /\ WellFormed(mm) /\ mm.currentStrategy = FIRST_FIT =>
        \A n \in AllocSizes :
            Succeeded(allocate(mm, n)) =>
                /\ Placed(allocate(mm, n)) \in LayoutFits(mm, n + H)
                /\ \A o \in LayoutFits(mm, n + H) : Placed(allocate(mm, n)) <= o

\* C8 amended: under FIRST_FIT a successful allocate(n) uses the first block
\* in free-list order, from freeListHead along next, that is free and has
\* size >= n + H (the sum taken modulo 2^64).
C8_FirstFitListOrder ==
    Running /\ mm.currentStrategy = FIRST_FIT =>
        \A n \in Sizes :
            Succeeded(allocate(mm, n)) =>
                \E i \in ListFits(mm, n + H) :
                    /\ FreeList(mm)[i] = allocate(mm, n).ptr - H
                    /\ \A j \in ListFits(mm, n + H) : i <= j

\* A first-fit allocate has just used a block although a free block that is
\* large enough lies at a lower offset.
C8_Witness ==
    /\ Running /\ WellFormed(mm)
    /\ mm.currentStrategy = FIRST_FIT
    /\ last.op = "allocate" /\ last.ok
    /\ \E i \in 1 .. Len(Blocks(mm)) :
          /\ Blocks(mm)[i].free
          /\ Blocks(mm)[i].offset < last.ptr - H - Base
          /\ UGe(Blocks(mm)[i].size, last.arg + H)

TwinBelow(s) ==
    \E i, k \in 1 .. Len(Blocks(s)) :
        /\ Blocks(s)[k].offset = last.ptr - H - Base
        /\ ~Blocks(s)[k].free
        /\ k < Len(Blocks(s)) => ~Blocks(s)[k + 1].free
        /\ i < k
        /\ Blocks(s)[i].free
        /\ Blocks(s)[i].size = Blocks(s)[k].size

C10_WorstFitLowestOffset ==
    Running /\ WellFormed(mm) /\ mm.currentStrategy = WORST_FIT =>
        \A n \in AllocSizes :
            Succeeded(allocate(mm, n)) =>
                LET o == Placed(allocate(mm, n))
                IN /\ o \in LayoutFits(mm, n + H)
                   /\ \A p \in LayoutFits(mm, n + H) :
                         /\ ~UGt(Size(mm, Base + p), Size(mm, Base + o))
                         /\ Size(mm, Base + p) = Size(mm, Base + o) => o <= p

\* C10 amended: under WORST_FIT a successful allocate(n) uses a block of
\* maximal size among the free-list blocks that are free and have
\* size >= n + H (modulo 2^64) and, among those of that maximal size, the one
\* that comes first in free-list order.
C10_WorstFitListOrder ==
    Running /\ mm.currentStrategy = WORST_FIT =>
        \A n \in Sizes :
            Succeeded(allocate(mm, n)) =>
                \E i \in ListFits(mm, n + H) :
                    /\ FreeList(mm)[i] = allocate(mm, n).ptr - H
                    /\ \A j \in ListFits(mm, n + H) :
                          /\ ~UGt(Size(mm, FreeList(mm)[j]), Size(mm, FreeList(mm)[i]))
                          /\ Size(mm, FreeList(mm)[j]) = Size(mm, FreeList(mm)[i])
                                => i <= j

\* A worst-fit allocate has just used one of two free blocks of equal size,
\* and not the one at the lower offset.
C10_Witness ==
    /\ Running /\ WellFormed(mm)
    /\ mm.currentStrategy = WORST_FIT
    /\ last.op = "allocate" /\ last.ok
    /\ TwinBelow(mm)

\* ------------------------------------------------------------ splitting
\* The layout as the claims speak of it: offset, size and free flag of every
\* block of the walk.
Layout(s) ==
    [i \in 1 .. Len(Blocks(s)) |->
        [offset |-> Blocks(s)[i].offset, size |-> Blocks(s)[i].size,
         free |-> Blocks(s)[i].free]]

\* What the block b becomes when r bytes of it are allocated: split when the
\* remainder can hold a header and MinRemainder bytes, taken whole otherwise.
SplitOf(b, r) ==
    IF UGe(b.size, r + H + MinRemainder)
    THEN <<[offset |-> b.offset, size |-> r, free |-> FALSE],
           [offset |-> b.offset + r, size |-> b.size - r, free |-> TRUE]>>
    ELSE <<[offset |-> b.offset, size |-> b.size, free |-> FALSE]>>

\* The layout l with its k-th block replaced by the blocks of SplitOf.
SplitAt(l, k, r) ==
    SubSeq(l, 1, k - 1) \o SplitOf(l[k], r) \o SubSeq(l, k + 1, Len(l))

\* C11: when allocate(n) chooses the free block at offset o, r = n + H, the
\* layout afterwards is the layout before with that block replaced by an
\* allocated block of size r and a free block of the remainder if
\* size >= r + H + 8, and by the same block marked allocated otherwise; no
\* other block changes.
C11_Splitting ==
    Running =>
        \A n \in Sizes :
            Succeeded(allocate(mm, n)) =>
                \E k \in 1 .. Len(Layout(mm)) :
                    /\ Layout(mm)[k].offset = Placed(allocate(mm, n))
                    /\ Layout(mm)[k].free
                    /\ Layout(allocate(mm, n).s) = SplitAt(Layout(mm), k, n + H)

\* ----------------------------------------------------------- coalescing
\* The arena is one free block at offset 0 of size M.
SingleFreeBlock(s) == Layout(s) = <<[offset |-> 0, size |-> M, free |-> TRUE]>>

\* C12: whenever no live allocation remains, the arena is a single free block
\* at offset 0 of size M, and a request that succeeds on the fresh arena
\* succeeds again, at the same address.
C12_FullCoalesce ==
    Running /\ LiveIds(mm) = {} =>
        /\ SingleFreeBlock(mm)
        /\ \A n \in Sizes :
              Succeeded(allocate(initializeMemory, n)) =>
                  /\ Succeeded(allocate(mm, n))
                  /\ allocate(mm, n).ptr = allocate(initializeMemory, n).ptr

\* ------------------------------------------------------------ round trip
\* The live allocations: id, address and requested size of each.
Live(s) ==
    {[id |-> id, address |-> AddressOf(s, id), requested |-> RequestedOf(s, id)] :
        id \in LiveIds(s)}

\* The result a of a successful allocate is undone by the deallocate result d:
\* d succeeded, and layout and live allocations are those of s.
Restores(s, d) ==
    /\ d.ok /\ d.s.fault = "none"
    /\ Layout(d.s) = Layout(s)
    /\ Live(d.s) = Live(s)

\* C13: from any reachable state, a successful allocate(n) immediately
\* followed by deallocate of the block just returned (by address, or by id)
\* restores the block layout and the set of live allocations.
C13_RoundTrip ==
    Running =>
        \A n \in Sizes :
            Succeeded(allocate(mm, n)) =>
                /\ Restores(mm, deallocate(allocate(mm, n).s, allocate(mm, n).ptr))
                /\ Restores(mm, deallocateId(allocate(mm, n).s, mm.nextBlockId))

\* ------------------------------------------------------------------- ids
\* The ids handed out so far are 1 .. nextBlockId - 1, one per successful
\* allocate; the live ones and the released ones are among them, apart, and
\* distinct live ids name distinct blocks.
IdsIssued(s) == 1 .. s.nextBlockId - 1

IdsConsistent(s) ==
    /\ s.nextBlockId = s.allocationSuccessCount + 1
    /\ LiveIds(s) \subseteq IdsIssued(s)
    /\ \A i, j \in LiveIds(s) : i # j => BlockOf(s, i) # BlockOf(s, j)

\* allocate(n) in s returned r: a success takes the id nextBlockId, new to
\* the live and to the released ids, and moves the counter by one; a failure
\* takes none.
IdStep(s, r) ==
    /\ Succeeded(r) =>
          /\ s.nextBlockId \notin LiveIds(s) \cup freedIds
          /\ LiveIds(r.s) = LiveIds(s) \cup {s.nextBlockId}
          /\ AddressOf(r.s, s.nextBlockId) = r.ptr
          /\ r.s.nextBlockId = s.nextBlockId + 1
    /\ Failed(r) =>
          /\ LiveIds(r.s) = LiveIds(s)
          /\ r.s.nextBlockId = s.nextBlockId

\* C14: ids are assigned only on successful allocation, start at 1, strictly
\* increase in allocation order, are never reused after a free, are never
\* consumed by a failed allocate, and no two live allocations share an id.
C14_IdUniqueness ==
    Running =>
        /\ IdsConsistent(mm)
        /\ freedIds \subseteq IdsIssued(mm) \ LiveIds(mm)
        /\ \A n \in Sizes : IdStep(mm, allocate(mm, n))
        /\ \A id \in FreeIds :
              /\ deallocateId(mm, id).s.nextBlockId = mm.nextBlockId
              /\ LiveIds(deallocateId(mm, id).s) \subseteq LiveIds(mm)
        /\ \A ptr \in FreeAddrs :
              /\ deallocate(mm, ptr).s.nextBlockId = mm.nextBlockId
              /\ LiveIds(deallocate(mm, ptr).s) \subseteq LiveIds(mm)

\* An allocate has just succeeded after an id was released and after an
\* allocate failed, with another allocation still live.
C14_Witness ==
    /\ Running
    /\ last.op = "allocate" /\ last.ok
    /\ freedIds # {}
    /\ mm.allocationFailureCount > 0
    /\ Cardinality(LiveIds(mm)) >= 2

\* ---------------------------------------------------------------- metrics
\* A metric is returned as a double, (double(num) / den) * 100.0 with den a
\* nonzero size_t; it is kept here as the pair of the two 64-bit operands.
\* "defined" is false where the computation read past the arena.
Ratio(num, den) == [num |-> num, den |-> den, defined |-> TRUE]
Zero == Ratio(0, 1)                       \* return 0.0

\* static_cast<double>(x) for a 64-bit x: exact below 2^53; a value 2^64 - k
\* is rounded to the nearest multiple of 2^11, ties to the even mantissa.
\* DoubleUlps(k) is the distance of the result from 2^64 in units of 2^11.
Ulp == 2048
DoubleUlps(k) ==
    IF k % Ulp < Ulp \div 2 THEN k \div Ulp
    ELSE IF k % Ulp > Ulp \div 2 THEN k \div Ulp + 1
    ELSE IF (k \div Ulp) % 2 = 0 THEN k \div Ulp ELSE k \div Ulp + 1
\* static_cast<double>(a) <= static_cast<double>(b)
DoubleLe(a, b) ==
    IF a >= 0 /\ b >= 0 THEN a <= b
    ELSE IF a >= 0 THEN TRUE
    ELSE IF b >= 0 THEN FALSE
    ELSE DoubleUlps(-a) >= DoubleUlps(-b)
\* The double lies in [0, 100]: it is never negative (both operands are
\* unsigned), and it is at most 100.0 exactly when double(num) <= double(den).
InRange(r) == r.defined /\ DoubleLe(r.num, r.den)

\* getUsedMemory: the sizes of the blocks of idToHeader that are not free
RECURSIVE UsedOver(_, _, _)
UsedOver(s, ids, used) ==
    IF ids = {} THEN used
    ELSE UsedOver(s, ids \ {CHOOSE id \in ids : TRUE},
                  IF IsFree(s, s.idToHeader[CHOOSE id \in ids : TRUE]) THEN used
                  ELSE used + Size(s, s.idToHeader[CHOOSE id \in ids : TRUE]))
getUsedMemory(s) == UsedOver(s, DOMAIN s.idToHeader, 0)

getFreeMemory(s) ==
    IF UGt(getUsedMemory(s), M) THEN 0 ELSE M - getUsedMemory(s)

getMemoryUtilization(s) ==
    IF M = 0 THEN Zero ELSE Ratio(getUsedMemory(s), M)

\* The loop of getInternalFragmentation over idToHeader: the usable sizes of
\* the blocks that are not free, and the sizes requested for the ids their
\* headers carry.
InternalOf(s, block, t) ==
    IF IsFree(s, block) THEN t
    ELSE [allocated |-> t.allocated + Size(s, block) - H,
          requested |-> t.requested +
              (IF Id(s, block) \in DOMAIN s.idToRequestedSize
               THEN s.idToRequestedSize[Id(s, block)] ELSE 0)]
RECURSIVE InternalOver(_, _, _)
InternalOver(s, ids, t) ==
    IF ids = {} THEN t
    ELSE InternalOver(s, ids \ {CHOOSE id \in ids : TRUE},
                      InternalOf(s, s.idToHeader[CHOOSE id \in ids : TRUE], t))
\* wasted = totalAllocated - totalRequested, unsigned
getInternalFragmentation_ratio(t) ==
    IF t.allocated = 0 THEN Zero
    ELSE Ratio(t.allocated - t.requested, t.allocated)
getInternalFragmentation(s) ==
    getInternalFragmentation_ratio(
        InternalOver(s, DOMAIN s.idToHeader, [allocated |-> 0, requested |-> 0]))

\* The loop of getExternalFragmentation: from offset 0, adding sizes, while
\* the offset is below totalMemorySize and for at most maxIterations blocks.
\* At a block of size 0 the rest of the loop is computed in one step.
maxIterations == 1000
RECURSIVE ExternalFrom(_, _, _, _, _)
ExternalFrom(s, address, iterations, totalFreeUsable, largestFreeUsable) ==
    IF ~ULt(address, M) \/ iterations >= maxIterations
    THEN [total |-> totalFreeUsable, largest |-> largestFreeUsable,
          defined |-> TRUE]
    ELSE IF ~HdrOk(Base + address)
    THEN [total |-> totalFreeUsable, largest |-> largestFreeUsable,
          defined |-> FALSE]
    ELSE IF Size(s, Base + address) = 0
    THEN \* the offset no longer moves: every iteration left sees this block
         IF ~IsFree(s, Base + address)
         THEN [total |-> totalFreeUsable, largest |-> largestFreeUsable,
               defined |-> TRUE]
         ELSE [total |-> totalFreeUsable + (maxIterations - iterations) * (-H),
               largest |-> IF UGt(-H, largestFreeUsable) THEN -H
                           ELSE largestFreeUsable,
               defined |-> TRUE]
    ELSE IF ~IsFree(s, Base + address)
    THEN ExternalFrom(s, address + Size(s, Base + address), iterations + 1,
                      totalFreeUsable, largestFreeUsable)
    ELSE ExternalFrom(s, address + Size(s, Base + address), iterations + 1,
                      totalFreeUsable + Size(s, Base + address) - H,
                      IF UGt(Size(s, Base + address) - H, largestFreeUsable)
                      THEN Size(s, Base + address) - H
                      ELSE largestFreeUsable)
getExternalFragmentation_ratio(w) ==
    IF w.total = 0 THEN [Zero EXCEPT !.defined = w.defined]
    ELSE [num |-> IF UGt(w.total, w.largest) THEN w.total - w.largest ELSE 0,
          den |-> M, defined |-> w.defined]
getExternalFragmentation(s) ==
    IF M = 0 THEN Zero
    ELSE getExternalFragmentation_ratio(ExternalFrom(s, 0, 0, 0, 0))

\* C15: in every reachable allocator state, whatever the request sizes of the
\* calls that led to it, utilization, internal fragmentation and external
\* fragmentation each lie in [0, 100].
C15_MetricRanges ==
    Running =>
        /\ InRange(getMemoryUtilization(mm))
        /\ InRange(getInternalFragmentation(mm))
        /\ InRange(getExternalFragmentation(mm))

\* ------------------------------------------------- whole-block consumption
\* The request sizes tried on each state reached: those of the calls, and
\* 2^64 - H + 8, for which size + sizeof(BlockHeader) wraps to 8.
RequestSizes == Sizes \cup {MinRemainder - H}

\* allocate(n) in s returned r, and the free block it picked is too small to
\* be split: its size is less than requiredSize + sizeof(BlockHeader) + 8.
Consumes(s, n, r) ==
    /\ Succeeded(r)
    /\ IsFree(s, r.ptr - H)
    /\ ULt(Size(s, r.ptr - H), n + H + H + MinRemainder)

\* The picked block is handed out whole, with n recorded as its request.
ConsumedWhole(s, n, r) ==
    /\ Size(r.s, r.ptr - H) = Size(s, r.ptr - H)
    /\ ~IsFree(r.s, r.ptr - H)
    /\ AddressOf(r.s, s.nextBlockId) = r.ptr
    /\ RequestedOf(r.s, s.nextBlockId) = n

\* C16 as stated: when allocate(n) picks a free block of size s whose
\* remainder s - (n + H) is less than H + 8, the whole block is consumed (its
\* size stays s) and the requested size is strictly less than the usable size
\* s - H.
C16_WholeBlockStrict ==
    Running =>
        \A n \in RequestSizes :
            Consumes(mm, n, allocate(mm, n)) =>
                /\ ConsumedWhole(mm, n, allocate(mm, n))
                /\ ULt(n, Size(allocate(mm, n).s, allocate(mm, n).ptr - H) - H)

\* C16, amended: when allocate(n) picks a free block of size s that is less
\* than requiredSize + H + 8, with requiredSize = (n + H) mod 2^64, the whole
\* block is consumed (its size stays s) with n as its requested size, and
\* requiredSize <= s; for n + H below 2^64 that is requested <= usable size
\* s - H, equality included.
C16_WholeBlock ==
    Running =>
        \A n \in RequestSizes :
            Consumes(mm, n, allocate(mm, n)) =>
                /\ ConsumedWhole(mm, n, allocate(mm, n))
                /\ UGe(Size(mm, allocate(mm, n).ptr - H), n + H)
                /\ n >= 0 =>
                      n <= Size(allocate(mm, n).s, allocate(mm, n).ptr - H) - H

\* An allocate has just handed out a block larger than its required size:
\* the block was consumed whole.
C16_Witness ==
    /\ Running
    /\ last.op = "allocate" /\ last.ok /\ last.arg >= 0
    /\ Size(mm, last.ptr - H) > last.arg + H

\* ---------------------------------------------------------- set_strategy
\* What set_strategy must leave alone: the arena (block layout and free list
\* links), the head of the free list, the ids, the live allocations, the
\* counters, and with them every metric.
Structure(s) == [s EXCEPT !.currentStrategy = FIRST_FIT]

\* C17: set_strategy changes only the placement strategy used by later
\* allocate calls: block layout, free list, ids, live allocations, metrics
\* and counters are unchanged, whether or not the new strategy differs from
\* the current one.
C17_SetStrategyFrame ==
    Running =>
        \A strategy \in Strategies :
            /\ setAllocationStrategy(mm, strategy).currentStrategy = strategy
            /\ Structure(setAllocationStrategy(mm, strategy)) = Structure(mm)
            /\ Blocks(setAllocationStrategy(mm, strategy)) = Blocks(mm)
            /\ FreeList(setAllocationStrategy(mm, strategy)) = FreeList(mm)
            /\ getMemoryUtilization(setAllocationStrategy(mm, strategy))
                   = getMemoryUtilization(mm)
            /\ getInternalFragmentation(setAllocationStrategy(mm, strategy))
                   = getInternalFragmentation(mm)
            /\ getExternalFragmentation(setAllocationStrategy(mm, strategy))
                   = getExternalFragmentation(mm)

\* The strategy has just been switched with an allocation live, a block
\* released and a failure counted.
C17_Witness ==
    /\ Running
    /\ last.op = "set_strategy"
    /\ LiveIds(mm) # {}
    /\ freedIds # {}
    /\ mm.allocationFailureCount > 0

\* ================================================================ the cache
\* CacheSimulator: two levels, each an array of sets of lines.
FIFO == 0
LRU == 1
LFU == 2
AddressBits == 64            \* "Assuming 64-bit addresses"

\* static_cast<size_t>(std::log2(n)) for n >= 1
RECURSIVE Log2(_)
Log2(n) == IF n <= 1 THEN 0 ELSE 1 + Log2(n \div 2)

\* One line of a set after initCacheLevel.
EmptyBlock ==
    [valid |-> FALSE, tag |-> 0, load_time |-> 0, last_access |-> 0,
     access_count |-> 0]

EmptySet(associativity) ==
    [blocks |-> [i \in 0 .. associativity - 1 |-> EmptyBlock],
     associativity |-> associativity,
     fifoQueue |-> <<>>,
     lruList |-> <<>>]

\* shl64 is what the build gives for 1ULL << 64, the shift extractTag makes
\* when tag_bits is 64 (one set of one-byte blocks): 1 where the shift count
\* is taken modulo 64, 0 where the bit is shifted out.
initCacheLevel(levelNum, size, block_size, associativity, policy, shl64) ==
    [levelNum |-> levelNum,
     size |-> size,
     block_size |-> block_size,
     associativity |-> associativity,
     policy |-> policy,
     hits |-> 0,
     misses |-> 0,
     evictions |-> 0,
     global_time |-> 0,
     num_sets |-> size \div (block_size * associativity),
     block_offset_bits |-> Log2(block_size),
     set_index_bits |-> Log2(size \div (block_size * associativity)),
     tag_bits |-> AddressBits - Log2(size \div (block_size * associativity))
                             - Log2(block_size),
     sets |-> [i \in 0 .. size \div (block_size * associativity) - 1 |->
                  EmptySet(associativity)],
     shl64 |-> shl64]

\* l1 and l2 are <<size, block_size, associativity>>.
CacheSimulator(l1, l2, policy, shl64) ==
    [l1_cache |-> initCacheLevel(1, l1[1], l1[2], l1[3], policy, shl64),
     l2_cache |-> initCacheLevel(2, l2[1], l2[2], l2[3], policy, shl64),
     defaultPolicy |-> policy]

\* x & ((1ULL << bits) - 1) for bits < 64; the addresses tried are below
\* 2^31, so a mask of 31 bits or more keeps them whole.
LowBits(x, bits) == IF bits >= 31 THEN x ELSE x % (2 ^ bits)

extractTag(level, address) ==
    IF level.tag_bits >= AddressBits
    THEN IF level.shl64 = 1 THEN 0        \* mask = 1 - 1
         ELSE address                     \* mask = 0 - 1, all ones
    ELSE LowBits(address \div (2 ^ (level.set_index_bits + level.block_offset_bits)),
                 level.tag_bits)

extractSetIndex(level, address) ==
    LowBits(address \div (2 ^ level.block_offset_bits), level.set_index_bits)

extractBlockOffset(level, address) == LowBits(address, level.block_offset_bits)

\* std::list::remove and push_back
MoveToBack(list, x) == Append(SelectSeq(list, LAMBDA y : y # x), x)

\* updateReplacementData moving the LRU list without the timestamp.
updateReplacementData_listOnly(level, set_index, block_index, policy) ==
    IF policy = LRU
    THEN [level EXCEPT !.sets[set_index].lruList = MoveToBack(@, block_index)]
    ELSE IF policy = LFU
    THEN [level EXCEPT !.sets[set_index].blocks[block_index].access_count = @ + 1]
    ELSE level

updateReplacementData(level, set_index, block_index, policy) ==
    IF policy = LRU
    THEN [level EXCEPT
            !.sets[set_index].lruList = MoveToBack(@, block_index),
            !.sets[set_index].blocks[block_index].last_access = level.global_time]
    ELSE IF policy = LFU
    THEN [level EXCEPT !.sets[set_index].blocks[block_index].access_count = @ + 1]
    ELSE level

\* The victim searches return the set as they leave it and the index chosen.
findVictimFIFO_front(set, queue) ==
    [set |-> [set EXCEPT !.fifoQueue = Append(Tail(queue), Head(queue))],
     victim |-> Head(queue)]
\* findVictimFIFO without "Re-insert at end": the front stays the front.
findVictimFIFO_stuck(set) ==
    [set |-> [set EXCEPT !.fifoQueue =
                 IF @ = <<>> THEN [i \in 1 .. set.associativity |-> i - 1] ELSE @],
     victim |-> IF set.fifoQueue = <<>> THEN 0 ELSE Head(set.fifoQueue)]

findVictimFIFO(set) ==
    findVictimFIFO_front(set,
        IF set.fifoQueue = <<>>
        THEN [i \in 1 .. set.associativity |-> i - 1]
        ELSE set.fifoQueue)

\* The first index whose key is the least: the loops replace the victim only
\* on a strictly smaller key.
FirstLeast(key, n) ==
    CHOOSE i \in 0 .. n - 1 :
        /\ \A j \in 0 .. n - 1 : key[i] <= key[j]
        /\ \A j \in 0 .. i - 1 : key[j] > key[i]

findVictimLRU_at(set, victim) ==
    [set |-> [set EXCEPT !.lruList = MoveToBack(@, victim)], victim |-> victim]
findVictimLRU(set) ==
    findVictimLRU_at(set,
        FirstLeast([i \in DOMAIN set.blocks |-> set.blocks[i].last_access],
                   set.associativity))

\* findVictimLFU replacing the victim on a smaller or equal count: of the
\* lines of the least count, the last.
findVictimLFU_lastLeast(set) ==
    [set |-> set,
     victim |-> CHOOSE i \in DOMAIN set.blocks :
                   /\ \A j \in DOMAIN set.blocks :
                         set.blocks[i].access_count <= set.blocks[j].access_count
                   /\ \A j \in DOMAIN set.blocks :
                         j > i => set.blocks[j].access_count > set.blocks[i].access_count]

findVictimLFU(set) ==
    [set |-> set,
     victim |-> FirstLeast([i \in DOMAIN set.blocks |-> set.blocks[i].access_count],
                           set.associativity)]

findVictim(policy, set) ==
    IF policy = FIFO THEN findVictimFIFO(set)
    ELSE IF policy = LRU THEN findVictimLRU(set)
    ELSE findVictimLFU(set)

\* accessLevel_load without the assignment of last_access: the line keeps the
\* last_access it had.
accessLevel_load_keepAccess(level, set_index, tag, victim_index, rep) ==
    [level |-> updateReplacementData(
                   [level EXCEPT !.sets[set_index].blocks[victim_index] =
                       [valid |-> TRUE, tag |-> tag,
                        load_time |-> level.global_time,
                        last_access |-> @.last_access,
                        access_count |-> 1]],
                   set_index, victim_index, level.policy),
     report |-> rep,
     hit |-> FALSE]

\* accessLevel(level, physical_address, report, update_stats, allocate), with
\* `fill` for its parameter allocate, returns [level |-> the level afterwards, report |-> the report
\* with the events added, hit |-> the value returned].
\* "Load new block" and the update of the replacement data
accessLevel_load(level, set_index, tag, victim_index, rep) ==
    [level |-> updateReplacementData(
                   [level EXCEPT !.sets[set_index].blocks[victim_index] =
                       [valid |-> TRUE, tag |-> tag,
                        load_time |-> level.global_time,
                        last_access |-> level.global_time,
                        access_count |-> 1]],
                   set_index, victim_index, level.policy),
     report |-> rep,
     hit |-> FALSE]

\* accessLevel_evict with the eviction counted and no event logged.
accessLevel_evict_silent(level, set_index, tag, r, rep) ==
    accessLevel_load(
        [level EXCEPT !.sets[set_index] = r.set, !.evictions = @ + 1],
        set_index, tag, r.victim, rep)

\* the set is full: r is the result of the victim search
accessLevel_evict(level, set_index, tag, r, rep) ==
    accessLevel_load(
        [level EXCEPT !.sets[set_index] = r.set, !.evictions = @ + 1],
        set_index, tag, r.victim,
        [rep EXCEPT !.events =
            Append(@, [level |-> level.levelNum,
                       tag |-> level.sets[set_index].blocks[r.victim].tag,
                       set |-> set_index])])

\* The indices of the lines of a set that are not valid.
Invalid(set) == {i \in DOMAIN set.blocks : ~set.blocks[i].valid}
\* The indices of the valid lines of a set that hold tag.
Holding(set, tag) ==
    {i \in DOMAIN set.blocks : set.blocks[i].valid /\ set.blocks[i].tag = tag}
Least(S) == CHOOSE i \in S : \A j \in S : i <= j

accessLevel_miss(level, set_index, tag, rep, fill) ==
    IF ~fill THEN [level |-> level, report |-> rep, hit |-> FALSE]
    ELSE IF Invalid(level.sets[set_index]) # {}
    THEN accessLevel_load(level, set_index, tag,
                          Least(Invalid(level.sets[set_index])), rep)
    ELSE accessLevel_evict(level, set_index, tag,
                           findVictim(level.policy, level.sets[set_index]), rep)

accessLevel_hit(level, set_index, block_index, rep, update_stats) ==
    [level |-> IF update_stats
               THEN updateReplacementData([level EXCEPT !.hits = @ + 1],
                                          set_index, block_index, level.policy)
               ELSE level,
     report |-> rep,
     hit |-> TRUE]

\* accessLevel_lookup comparing the tag with the first line of the set only.
accessLevel_lookup_firstLine(level, set_index, tag, rep, update_stats, fill) ==
    IF set_index >= level.num_sets
    THEN [level |-> level, report |-> rep, hit |-> FALSE]
    ELSE IF 0 \in Holding(level.sets[set_index], tag)
    THEN accessLevel_hit(level, set_index, 0, rep, update_stats)
    ELSE accessLevel_miss(
             IF update_stats THEN [level EXCEPT !.misses = @ + 1] ELSE level,
             set_index, tag, rep, fill)

accessLevel_lookup(level, set_index, tag, rep, update_stats, fill) ==
    IF set_index >= level.num_sets
    THEN [level |-> level, report |-> rep, hit |-> FALSE]
    ELSE IF Holding(level.sets[set_index], tag) # {}
    THEN accessLevel_hit(level, set_index,
                         Least(Holding(level.sets[set_index], tag)),
                         rep, update_stats)
    ELSE accessLevel_miss(
             IF update_stats THEN [level EXCEPT !.misses = @ + 1] ELSE level,
             set_index, tag, rep, fill)

accessLevel(level, physical_address, rep, update_stats, fill) ==
    accessLevel_lookup(
        IF update_stats THEN [level EXCEPT !.global_time = @ + 1] ELSE level,
        extractSetIndex(level, physical_address),
        extractTag(level, physical_address),
        rep, update_stats, fill)

\* access(physical_address): [c |-> the simulator afterwards, report |-> the
\* report returned].
NewReport == [l1Hit |-> FALSE, l2Hit |-> FALSE, l2Accessed |-> FALSE, events |-> <<>>]

\* r is the result of the last fill of L1
access_done(c, r) ==
    [c |-> [c EXCEPT !.l1_cache = r.level], report |-> r.report]
\* access_fill loading L2 only.
access_fill_l2Only(c, physical_address, r) ==
    [c |-> [c EXCEPT !.l2_cache = r.level], report |-> r.report]

\* both missed: r is the result of the fill of L2
access_fill(c, physical_address, r) ==
    access_done([c EXCEPT !.l2_cache = r.level],
                accessLevel(c.l1_cache, physical_address, r.report, FALSE, TRUE))
\* r is the result of the probe of L2
access_l2(c, physical_address, r) ==
    IF r.hit
    THEN access_done([c EXCEPT !.l2_cache = r.level],
                     accessLevel(c.l1_cache, physical_address,
                                 [r.report EXCEPT !.l2Hit = TRUE], FALSE, TRUE))
    ELSE access_fill(c, physical_address,
                     accessLevel(r.level, physical_address,
                                 [r.report EXCEPT !.l2Hit = FALSE], FALSE, TRUE))
\* access_l1 going to L2 without report.l2Accessed = true.
access_l1_unreported(c, physical_address, r) ==
    IF r.hit
    THEN [c |-> [c EXCEPT !.l1_cache = r.level],
          report |-> [r.report EXCEPT !.l1Hit = TRUE]]
    ELSE access_l2([c EXCEPT !.l1_cache = r.level], physical_address,
                   accessLevel(c.l2_cache, physical_address, r.report,
                               TRUE, FALSE))

\* r is the result of the probe of L1
access_l1(c, physical_address, r) ==
    IF r.hit
    THEN [c |-> [c EXCEPT !.l1_cache = r.level],
          report |-> [r.report EXCEPT !.l1Hit = TRUE]]
    ELSE access_l2([c EXCEPT !.l1_cache = r.level], physical_address,
                   accessLevel(c.l2_cache, physical_address,
                               [r.report EXCEPT !.l2Accessed = TRUE],
                               TRUE, FALSE))
\* access probing L2 before L1 on every access.
access_probeBoth(c, physical_address) ==
    access_l1([c EXCEPT !.l2_cache =
                  accessLevel(c.l2_cache, physical_address, NewReport,
                              TRUE, FALSE).level],
              physical_address,
              accessLevel(c.l1_cache, physical_address, NewReport, TRUE, FALSE))

access(c, physical_address) ==
    access_l1(c, physical_address,
              accessLevel(c.l1_cache, physical_address, NewReport, TRUE, FALSE))

setReplacementPolicy(c, policy) ==
    [c EXCEPT !.defaultPolicy = policy,
              !.l1_cache.policy = policy,
              !.l2_cache.policy = policy]

\* setReplacementPolicy(level, policy) taking every level but 1 for level 2.
setReplacementPolicyLevel_else2(c, level, policy) ==
    IF level = 1 THEN [c EXCEPT !.l1_cache.policy = policy]
    ELSE [c EXCEPT !.l2_cache.policy = policy]

setReplacementPolicyLevel(c, level, policy) ==
    IF level = 1 THEN [c EXCEPT !.l1_cache.policy = policy]
    ELSE IF level = 2 THEN [c EXCEPT !.l2_cache.policy = policy]
    ELSE c

\* ------------------------------------------------------- the cache, state
MaxAccesses == 3
\* <<size, block_size, associativity>>.  L1: two two-way sets of one-byte
\* blocks, one two-way set of one-byte blocks (tag_bits = 64), two
\* direct-mapped sets of two-byte blocks.  L2: two two-way sets of one-byte
\* blocks.
L1Geometries == {<<4, 1, 2>>, <<2, 1, 2>>, <<4, 2, 1>>}
L2Geometries == {<<4, 1, 2>>}
\* 0, 2 and 4 meet in one set of every level; 4 and 5 share a two-byte block.
Addresses == {0, 2, 4, 5}
Policies == {FIFO, LRU, LFU}
Levels == {1, 2}
Shl64 == {0, 1}
\* The geometry g gives tag_bits = 64.
WideTag(g) == Log2(g[1] \div (g[2] * g[3])) + Log2(g[2]) = 0

CacheInit ==
    /\ mm = initializeMemory
    /\ last = [op |-> "init", arg |-> M, ok |-> TRUE, ptr |-> NULL]
    /\ freedIds = {}
    /\ freedPtrs = {}
    /\ \E l1 \in L1Geometries, l2 \in L2Geometries, policy \in Policies,
          shl64 \in Shl64 :
           \* where no level has 64 tag bits the shift is never made
           /\ shl64 = 1 \/ WideTag(l1) \/ WideTag(l2)
           /\ cache = CacheSimulator(l1, l2, policy, shl64)
    /\ report = NewReport
    /\ accessed = <<>>
    /\ cli = MemorySimulatorCLI

Accessed(physical_address, r) ==
    /\ cache' = r.c
    /\ report' = r.report
    /\ accessed' = Append(accessed, physical_address)

Access(physical_address) ==
    /\ Len(accessed) < MaxAccesses
    /\ Accessed(physical_address, access(cache, physical_address))
    /\ UNCHANGED <<mmVars, cliVars>>

SetPolicy(policy) ==
    /\ cache' = setReplacementPolicy(cache, policy)
    /\ UNCHANGED <<report, accessed>>
    /\ UNCHANGED <<mmVars, cliVars>>

SetLevelPolicy(level, policy) ==
    /\ cache' = setReplacementPolicyLevel(cache, level, policy)
    /\ UNCHANGED <<report, accessed>>
    /\ UNCHANGED <<mmVars, cliVars>>

CacheNext ==
    \/ \E physical_address \in Addresses : Access(physical_address)
    \/ \E policy \in Policies : SetPolicy(policy)
    \/ \E level \in Levels, policy \in Policies : SetLevelPolicy(level, policy)

CacheSpec == CacheInit /\ [][CacheNext]_vars


\* ------------------------------------------------------- claims, the cache
\* The flags of a report: L2 was consulted exactly when L1 missed, and L2 can
\* only hit when consulted.
ReportShape(r) ==
    /\ r.l2Accessed <=> ~r.l1Hit
    /\ r.l2Hit => r.l2Accessed
    /\ ~(r.l1Hit /\ r.l2Hit)

\* C18: for every access(address) in every cache state, l2_accessed is true
\* if and only if l1_hit is false, and l2_hit implies l2_accessed, so l1_hit
\* and l2_hit are never both true.
C18_ReportShape ==
    /\ accessed # <<>> => ReportShape(report)
    /\ \A physical_address \in Addresses :
           ReportShape(access(cache, physical_address).report)

\* The last access missed L1 and hit L2.
C18_Witness ==
    /\ accessed # <<>>
    /\ report.l2Hit
    /\ report.l2Accessed
    /\ ~report.l1Hit

\* The block of the address is in the level: a valid line of its set holds
\* its tag.
Present(level, physical_address) ==
    /\ extractSetIndex(level, physical_address) < level.num_sets
    /\ Holding(level.sets[extractSetIndex(level, physical_address)],
               extractTag(level, physical_address)) # {}

\* What access(a) leaves, from its result r.
Filled(r, physical_address) ==
    /\ Present(r.c.l1_cache, physical_address)
    /\ ~r.report.l1Hit /\ ~r.report.l2Hit =>
           Present(r.c.l2_cache, physical_address)
    /\ access(r.c, physical_address).report.l1Hit

\* C19: after any access(a) returns, a's block is valid in L1, and if the
\* access missed both levels it is also valid in L2; an immediately following
\* access(a) reports l1_hit = true, under every policy and geometry.
C19_FillThenHit ==
    /\ \A physical_address \in Addresses :
           Filled(access(cache, physical_address), physical_address)
    /\ accessed # <<>> =>
          /\ Present(cache.l1_cache, accessed[Len(accessed)])
          /\ ~report.l1Hit /\ ~report.l2Hit =>
                 Present(cache.l2_cache, accessed[Len(accessed)])

\* The last access missed both levels and evicted a line from each, and its
\* block is now in both.
C19_Witness ==
    /\ accessed # <<>>
    /\ ~report.l1Hit /\ ~report.l2Hit
    /\ Len(report.events) = 2
    /\ Present(cache.l1_cache, accessed[Len(accessed)])
    /\ Present(cache.l2_cache, accessed[Len(accessed)])

\* No two valid lines of one set hold the same tag.
UniqueTags(level) ==
    \A i \in DOMAIN level.sets :
        \A j, k \in DOMAIN level.sets[i].blocks :
            /\ level.sets[i].blocks[j].valid
            /\ level.sets[i].blocks[k].valid
            /\ level.sets[i].blocks[j].tag = level.sets[i].blocks[k].tag
            => j = k

UniqueTagsBoth(c) == UniqueTags(c.l1_cache) /\ UniqueTags(c.l2_cache)

\* C20: after any sequence of access and set_policy calls, within every set
\* of L1 and of L2 at most one valid line holds any given tag.
C20_TagUniqueness ==
    /\ UniqueTagsBoth(cache)
    /\ \A physical_address \in Addresses :
           UniqueTagsBoth(access(cache, physical_address).c)

\* A set of L1 and a set of L2 are full, each with two valid lines, after an
\* eviction from L2.
C20_Witness ==
    /\ \E i \in DOMAIN cache.l1_cache.sets :
           Cardinality(DOMAIN cache.l1_cache.sets[i].blocks
                       \ Invalid(cache.l1_cache.sets[i])) >= 2
    /\ \E i \in DOMAIN cache.l2_cache.sets :
           Cardinality(DOMAIN cache.l2_cache.sets[i].blocks
                       \ Invalid(cache.l2_cache.sets[i])) >= 2
    /\ cache.l2_cache.evictions > 0


\* ------------------------------------------------- counters of the levels
\* The probes of a level: every one is counted once, as a hit or as a miss,
\* and moves global_time by one.
Probes(level) == level.hits + level.misses

\* c after n calls of access: L1 was probed n times, L2 once per miss of L1.
Conserved(c, n) ==
    /\ Probes(c.l1_cache) = n
    /\ c.l1_cache.global_time = n
    /\ Probes(c.l2_cache) = c.l1_cache.misses
    /\ c.l2_cache.global_time = c.l1_cache.misses

\* The counters a fill must leave alone.
Counted(level) == <<level.hits, level.misses, level.global_time>>

\* C21: after any sequence of accesses, hits(L1) + misses(L1) equals the
\* number of access calls and L1's global_time; hits(L2) + misses(L2) equals
\* misses(L1) and L2's global_time.  Fills never change hits, misses or
\* global_time.
C21_HitMissConservation ==
    /\ Conserved(cache, Len(accessed))
    /\ \A physical_address \in Addresses :
          /\ Conserved(access(cache, physical_address).c, Len(accessed) + 1)
          /\ Counted(accessLevel(cache.l1_cache, physical_address, NewReport,
                                 FALSE, TRUE).level) = Counted(cache.l1_cache)
          /\ Counted(accessLevel(cache.l2_cache, physical_address, NewReport,
                                 FALSE, TRUE).level) = Counted(cache.l2_cache)


\* ------------------------------------------- geometries the spec excludes
\* The constructor checks nothing: it builds a simulator for every geometry
\* whose block_size * associativity is not 0 (that division traps).  These
\* are geometries it accepts although a size is no power of two or there is
\* no set at all.  L1: no set (1 / (1 * 2) = 0), three sets.  L2: two
\* direct-mapped sets of three-byte blocks.
\* With no set, std::log2(0) is converted to size_t, which is undefined; no
\* value of set_index_bits changes what accessLevel does then, since every
\* set_index is >= sets.size() = 0.
BadL1Geometries == {<<1, 1, 2>>, <<3, 1, 1>>}
BadL2Geometries == {<<6, 3, 1>>}

BadCacheInit ==
    /\ mm = initializeMemory
    /\ last = [op |-> "init", arg |-> M, ok |-> TRUE, ptr |-> NULL]
    /\ freedIds = {}
    /\ freedPtrs = {}
    /\ \E l1 \in BadL1Geometries, l2 \in BadL2Geometries, policy \in Policies :
           cache = CacheSimulator(l1, l2, policy, 1)
    /\ report = NewReport
    /\ accessed = <<>>
    /\ cli = MemorySimulatorCLI

BadCacheSpec == BadCacheInit /\ [][CacheNext]_vars


\* ------------------------------------------------------------------ fills
\* A fill of the level for the address: accessLevel with update_stats =
\* false and allocate = true, on a report with no events yet.
Fill(level, physical_address) ==
    accessLevel(level, physical_address, NewReport, FALSE, TRUE)

\* The fill loads a line: the address has a set in the level and no valid
\* line of it holds the tag.
Loads(level, physical_address) ==
    /\ extractSetIndex(level, physical_address) < level.num_sets
    /\ ~Present(level, physical_address)

\* The line the fill r loaded: the one that holds the tag afterwards.
Slot(r, set_index, tag) == Least(Holding(r.level.sets[set_index], tag))

\* The fill r of `level` into the set set_index for tag: into the lowest
\* invalid slot with no event and no eviction counted, or, the set being
\* full, with one eviction counted and one event that names the level, the
\* tag the slot held and the set.  Every other line keeps its valid flag and
\* its tag.
FillEvicts(level, r, set_index, tag) ==
    /\ Holding(r.level.sets[set_index], tag) # {}
    /\ \A i \in DOMAIN level.sets[set_index].blocks \ {Slot(r, set_index, tag)} :
          /\ r.level.sets[set_index].blocks[i].valid
                 = level.sets[set_index].blocks[i].valid
          /\ r.level.sets[set_index].blocks[i].tag
                 = level.sets[set_index].blocks[i].tag
    /\ IF Invalid(level.sets[set_index]) # {}
       THEN /\ Slot(r, set_index, tag) = Least(Invalid(level.sets[set_index]))
            /\ r.report.events = <<>>
            /\ r.level.evictions = level.evictions
       ELSE /\ r.report.events =
                   <<[level |-> level.levelNum,
                      tag |-> level.sets[set_index].blocks[Slot(r, set_index, tag)].tag,
                      set |-> set_index]>>
            /\ r.level.evictions = level.evictions + 1

FillEvictsAt(level, physical_address) ==
    Loads(level, physical_address) =>
        FillEvicts(level, Fill(level, physical_address),
                   extractSetIndex(level, physical_address),
                   extractTag(level, physical_address))

\* C22: on every fill, an eviction event is appended to the report and the
\* level's eviction counter is incremented if and only if the slot chosen
\* held a valid line before the fill; a fill into a set that has an invalid
\* slot takes the lowest-index invalid slot and evicts nothing.  The event
\* names the level, the evicted line's old tag and the set index.
C22_EvictionOnFill ==
    /\ \A physical_address \in Addresses :
          /\ FillEvictsAt(cache.l1_cache, physical_address)
          /\ FillEvictsAt(cache.l2_cache, physical_address)
    /\ Len(report.events) <= cache.l1_cache.evictions + cache.l2_cache.evictions

\* Both levels have evicted, and a set of L2 still has an invalid slot: the
\* next fills will be of both kinds.
C22_Witness ==
    /\ cache.l1_cache.evictions > 0
    /\ cache.l2_cache.evictions > 0
    /\ \E i \in DOMAIN cache.l2_cache.sets : Invalid(cache.l2_cache.sets[i]) # {}
    /\ report.events # <<>>


\* --------------------------------------------------------------- victims
LevelOf(c, n) == IF n = 1 THEN c.l1_cache ELSE c.l2_cache

\* The access with result r probed or filled level n.
Touched(r, n) == n = 1 \/ r.report.l2Accessed

\* A fill of the level for the address has to evict: the address has a set,
\* no line of it holds the tag and every line of it is valid.
MustEvict(level, physical_address) ==
    /\ Loads(level, physical_address)
    /\ Invalid(level.sets[extractSetIndex(level, physical_address)]) = {}

\* In a set of two lines or more, the line of a, which the access r just
\* touched in level n, has not gone longest without access: a fill of the
\* level for b, the level's policy set to LRU (c is the cache then), leaves it.
LRUSpares(n, a, b, r, c) ==
    ( /\ Touched(r, n)
      /\ LevelOf(c, n).associativity >= 2
      /\ Present(LevelOf(c, n), a)
      /\ extractSetIndex(LevelOf(c, n), a) = extractSetIndex(LevelOf(c, n), b)
      /\ MustEvict(LevelOf(c, n), b) )
    => Present(Fill(LevelOf(c, n), b).level, a)

LRUSparesAfter(n, a, b, r) ==
    LRUSpares(n, a, b, r, setReplacementPolicyLevel(r.c, n, LRU))

\* C23: whenever a level whose policy is LRU must evict on a fill into a full
\* set, the victim is the line of that set that has gone longest without being
\* accessed (its most recent probe-hit or fill is the oldest), in every
\* reachable state including states reached after set_policy switched the
\* level from FIFO or LFU to LRU.  Checked on the fills that follow an access
\* and a switch to LRU: the line the access touched is not the victim.
C23_LRUVictim ==
    \A n \in Levels : \A a \in Addresses : \A b \in Addresses :
        LRUSparesAfter(n, a, b, access(cache, a))


\* The line of the level that holds the tag of the address has a last_access
\* larger than every other line of its set.
MostRecent(level, physical_address) ==
    /\ Present(level, physical_address)
    /\ \A i \in DOMAIN level.sets[extractSetIndex(level, physical_address)].blocks :
          \/ i = Least(Holding(level.sets[extractSetIndex(level, physical_address)],
                               extractTag(level, physical_address)))
          \/ level.sets[extractSetIndex(level, physical_address)].blocks[i].last_access
             < level.sets[extractSetIndex(level, physical_address)].blocks[
                   Least(Holding(level.sets[extractSetIndex(level, physical_address)],
                                 extractTag(level, physical_address)))].last_access

\* C24: LRU monotonicity.  When L1's policy is LRU, immediately after
\* access(a) the L1 line holding a's tag has the largest last_access among the
\* lines of its set, whether the access hit or was filled.
C24_LRUMonotonicity ==
    cache.l1_cache.policy = LRU =>
        \A physical_address \in Addresses :
            extractSetIndex(cache.l1_cache, physical_address) < cache.l1_cache.num_sets
            => MostRecent(access(cache, physical_address).c.l1_cache, physical_address)

\* L1 is LRU and the last access hit L1 in a set whose two lines are valid.
C24_Witness ==
    /\ cache.l1_cache.policy = LRU
    /\ accessed # <<>>
    /\ report.l1Hit
    /\ cache.l1_cache.associativity = 2
    /\ cache.l1_cache.tag_bits < AddressBits
    /\ Invalid(cache.l1_cache.sets[
           extractSetIndex(cache.l1_cache, accessed[Len(accessed)])]) = {}
    /\ MostRecent(cache.l1_cache, accessed[Len(accessed)])


\* The line v of the set has the smallest access_count, and of the lines
\* with that count the lowest index.
LeastFrequent(set, v) ==
    \A i \in DOMAIN set.blocks :
        /\ set.blocks[v].access_count <= set.blocks[i].access_count
        /\ set.blocks[i].access_count = set.blocks[v].access_count => v <= i

\* A fill of the LFU level for the address, if it has to evict, loads the
\* address into the line least frequently used.
LFUVictimAt(level, physical_address) ==
    (level.policy = LFU /\ MustEvict(level, physical_address)) =>
        LeastFrequent(level.sets[extractSetIndex(level, physical_address)],
                      Slot(Fill(level, physical_address),
                           extractSetIndex(level, physical_address),
                           extractTag(level, physical_address)))

\* C25: whenever a level whose policy is LFU must evict on a fill into a full
\* set, the victim is the line with the smallest access_count, ties broken by
\* the lowest line index (a line accessed more often than another of its set
\* is kept and the other evicted).
C25_LFUVictim ==
    \A physical_address \in Addresses :
        /\ LFUVictimAt(cache.l1_cache, physical_address)
        /\ LFUVictimAt(cache.l2_cache, physical_address)

\* L1 is LFU, its set 0 is full, line 0 was accessed more often than line 1,
\* and the fill for an address has to evict from that set: the victim is
\* line 1.
C25_Witness ==
    /\ cache.l1_cache.policy = LFU
    /\ cache.l1_cache.associativity = 2
    /\ cache.l1_cache.tag_bits < AddressBits
    /\ cache.l1_cache.sets[0].blocks[0].access_count
           > cache.l1_cache.sets[0].blocks[1].access_count
    /\ \E physical_address \in Addresses :
          /\ extractSetIndex(cache.l1_cache, physical_address) = 0
          /\ MustEvict(cache.l1_cache, physical_address)
          /\ Slot(Fill(cache.l1_cache, physical_address), 0,
                  extractTag(cache.l1_cache, physical_address)) = 1


\* The line v of the set was loaded no later than any line of the set.
EarliestInserted(set, v) ==
    \A i \in DOMAIN set.blocks : set.blocks[v].load_time <= set.blocks[i].load_time

\* A fill of the FIFO level for the address, if it has to evict, loads the
\* address into the line earliest inserted.
FIFOVictimAt(level, physical_address) ==
    (level.policy = FIFO /\ MustEvict(level, physical_address)) =>
        EarliestInserted(level.sets[extractSetIndex(level, physical_address)],
                         Slot(Fill(level, physical_address),
                              extractSetIndex(level, physical_address),
                              extractTag(level, physical_address)))

\* C26: whenever a level whose policy is FIFO must evict on a fill into a
\* full set, the victim is the earliest-inserted line of that set (the one
\* with the smallest load_time), in every reachable state including states
\* reached after set_policy switched the level to FIFO from another policy or
\* back and forth.
C26_FIFOVictim ==
    \A physical_address \in Addresses :
        /\ FIFOVictimAt(cache.l1_cache, physical_address)
        /\ FIFOVictimAt(cache.l2_cache, physical_address)


\* The line the fill r of the level loaded for the address.
FilledLine(r, set_index, tag) ==
    r.level.sets[set_index].blocks[Slot(r, set_index, tag)]

\* The fill of the level for the address leaves the line it loaded valid,
\* with the tag of the address, loaded and last accessed at the level's
\* global_time and accessed once.
FreshLineAt(level, physical_address) ==
    Loads(level, physical_address) =>
        FilledLine(Fill(level, physical_address),
                   extractSetIndex(level, physical_address),
                   extractTag(level, physical_address))
        = [valid |-> TRUE,
           tag |-> extractTag(level, physical_address),
           load_time |-> level.global_time,
           last_access |-> level.global_time,
           access_count |-> 1]

\* C27: under every policy (FIFO, LRU and LFU), immediately after a fill the
\* filled line has valid = true, tag = the accessed address's tag,
\* load_time = last_access = the level's current global_time, and
\* access_count = 1.
C27_FreshLine ==
    \A physical_address \in Addresses :
        /\ FreshLineAt(cache.l1_cache, physical_address)
        /\ FreshLineAt(cache.l2_cache, physical_address)


\* ------------------------------------------------------------ set_policy
\* The level numbers a caller may pass: the two levels and two that name none.
LevelNumbers == {0, 1, 2, 3}

\* The level but for its policy: geometry, counters, global_time and sets
\* (every line and the per-set queue and list).
Kept(level) == [level EXCEPT !.policy = FIFO]

\* The cache d differs from the cache c in the policy of the levels in
\* `addressed` at most, and those have the policy given.
OnlyPolicy(c, d, addressed, policy) ==
    /\ Kept(d.l1_cache) = Kept(c.l1_cache)
    /\ Kept(d.l2_cache) = Kept(c.l2_cache)
    /\ d.l1_cache.policy = (IF 1 \in addressed THEN policy ELSE c.l1_cache.policy)
    /\ d.l2_cache.policy = (IF 2 \in addressed THEN policy ELSE c.l2_cache.policy)

\* C28: set_policy(policy) and set_policy(level, policy) change only the
\* policy field of the addressed level(s): every line's valid, tag, load_time,
\* last_access and access_count, the hit, miss and eviction counters and
\* global_time of both levels are unchanged, and a level number other than 1
\* or 2 changes nothing at all.
C28_SetPolicyFrame ==
    \A policy \in Policies :
        /\ OnlyPolicy(cache, setReplacementPolicy(cache, policy), {1, 2}, policy)
        /\ \A level \in LevelNumbers :
              /\ OnlyPolicy(cache, setReplacementPolicyLevel(cache, level, policy),
                            {level}, policy)
              /\ setReplacementPolicyLevel(cache, level, policy).defaultPolicy
                     = cache.defaultPolicy
              /\ level \notin Levels =>
                     setReplacementPolicyLevel(cache, level, policy) = cache

\* The levels have different policies, neither the one given at construction
\* or by the last set_policy(policy), after accesses that hit, missed and
\* evicted: both levels were addressed on a cache with state to keep.
C28_Witness ==
    /\ cache.l1_cache.policy # cache.l2_cache.policy
    /\ cache.l1_cache.policy # cache.defaultPolicy
    /\ cache.l2_cache.policy # cache.defaultPolicy
    /\ cache.l1_cache.hits > 0
    /\ cache.l1_cache.evictions > 0
    /\ cache.l2_cache.misses > 0


\* --------------------------------------------------------------- geometry
RECURSIVE IsPowerOfTwo(_)
IsPowerOfTwo(n) ==
    IF n <= 0 THEN FALSE
    ELSE IF n = 1 THEN TRUE
    ELSE n % 2 = 0 /\ IsPowerOfTwo(n \div 2)

\* The geometry the level was constructed with is one a cache may have:
\* block_size, associativity and num_sets positive powers of two, block_size
\* a divisor of the cache size.
ValidGeometry(level) ==
    /\ IsPowerOfTwo(level.block_size)
    /\ IsPowerOfTwo(level.associativity)
    /\ IsPowerOfTwo(level.num_sets)
    /\ level.num_sets >= 1
    /\ level.size % level.block_size = 0

\* C29: constructing a cache whose block_size, associativity or derived
\* num_sets (for either level) is not a positive power of two, whose
\* block_size does not divide cache_size, or whose num_sets is 0, fails with
\* BadGeometry; no usable cache instance results and no access is ever served
\* on such a geometry.
C29_BadGeometry ==
    /\ ValidGeometry(cache.l1_cache)
    /\ ValidGeometry(cache.l2_cache)


\* ------------------------------------------------------- address decoding
\* tag < 2^tag_bits; every address tried is below 2^31.
TagInRange(level, tag) == tag >= 0 /\ (level.tag_bits < 31 => tag < 2 ^ level.tag_bits)

\* (tag << (offset_bits + index_bits)) | (set_index << offset_bits) | offset:
\* the three fields do not overlap when each is in its range.
Recompose(level, tag, set_index, offset) ==
    tag * 2 ^ (level.block_offset_bits + level.set_index_bits)
    + set_index * 2 ^ level.block_offset_bits
    + offset

\* The address decodes into fields in range that recompose to it.
DecodesAt(level, address) ==
    /\ extractBlockOffset(level, address) < level.block_size
    /\ extractSetIndex(level, address) < level.num_sets
    /\ TagInRange(level, extractTag(level, address))
    /\ Recompose(level, extractTag(level, address), extractSetIndex(level, address),
                 extractBlockOffset(level, address)) = address

\* Two addresses get the same set index and tag exactly when they differ in
\* their offset bits only.
SameLineAt(level, a, b) ==
    ( /\ extractSetIndex(level, a) = extractSetIndex(level, b)
      /\ extractTag(level, a) = extractTag(level, b) )
    <=> (a \div 2 ^ level.block_offset_bits = b \div 2 ^ level.block_offset_bits)

Decodes(level) ==
    \A a \in Addresses :
        /\ DecodesAt(level, a)
        /\ \A b \in Addresses : SameLineAt(level, a, b)

\* C30: address decoding.  For every valid geometry and every address,
\* offset < block_size, set_index < num_sets, tag < 2^tag_bits, and
\* (tag << (offset_bits + index_bits)) | (set_index << offset_bits) | offset
\* equals the address; two addresses get the same (set_index, tag) exactly
\* when they differ only in their offset bits.
C30_AddressDecoding ==
    /\ Decodes(cache.l1_cache)
    /\ Decodes(cache.l2_cache)


\* ------------------------------------------------------ 64-bit request sizes
\* allocate(n) returned r: a request of more than M - H bytes failed, and a
\* block handed out has a usable size (size - H) of n bytes at least.
Honoured(s, n, r) ==
    /\ UGt(n, M - H) => r.ptr = NULL
    /\ Succeeded(r) => UGe(Size(r.s, r.ptr - H) - H, n)

\* C33: integer overflow in allocate.  For every request size n in the 64-bit
\* domain with n > M - H, including n so close to 2^64 that n + H wraps around
\* modulo 2^64, allocate(n) fails; no block is ever handed out whose usable
\* size (size - H) is smaller than the requested n.
C33_NoOverflow ==
    Running => \A n \in Sizes : Honoured(mm, n, allocate(mm, n))


\* ------------------------------------------------- placement and history
\* Two histories from one state: the live allocations p and q released in
\* either order.
ReleasedBoth(s, p, q) == deallocateId(deallocateId(s, p).s, q).s

\* The states s and t are two outcomes with one layout: neither died, and
\* the walks show the same offsets, sizes and free flags.
LayoutAlong(s, walk) ==
    [i \in 1 .. Len(walk) |->
        [offset |-> walk[i], size |-> Size(s, Base + walk[i]),
         free |-> IsFree(s, Base + walk[i])]]
SameLayout(s, t) ==
    /\ s.fault = "none" /\ t.fault = "none"
    /\ LayoutAlong(s, Walk(s)) = LayoutAlong(t, Walk(t))

\* The free lists of s and t hold the same blocks in the same order.
SameFreeList(s, t) == FreeList(s) = FreeList(t)

\* allocate(n) chooses the same block in s as in t: the search finds the
\* same header, and the address returned is that header's plus H.
SameChoice(s, t, n) == findBlock(s, n + H) = findBlock(t, n + H)

SameChoices(s, t) == \A n \in AllocSizes : SameChoice(s, t, n)

\* The two histories that ended in s and in t with one layout place alike;
\* and so they do when their free lists are in one order too.
PlaceAlike(s, t) == SameLayout(s, t) => SameChoices(s, t)
PlaceAlikeListed(s, t) == (SameLayout(s, t) /\ SameFreeList(s, t)) => SameChoices(s, t)

\* A third history: allocate(n), which returned r, and the deallocate of
\* what it returned.
Returned(s, r) == IF Succeeded(r) THEN deallocate(r.s, r.ptr).s ELSE s

RECURSIVE EndsFrom(_, _, _)
EndsFrom(s, current, seen) ==
    IF current = NULL THEN TRUE
    ELSE IF ~HdrOk(current) \/ current \in seen THEN FALSE
    ELSE EndsFrom(s, NextOf(s, current), seen \cup {current})

Acyclic(s) == EndsFrom(s, s.freeListHead, {})

\* prev of the head is nullptr and prev of every other header of the list
\* is the header before it.
Linked(s, list) ==
    \A i \in 1 .. Len(list) :
        PrevOf(s, list[i]) = (IF i = 1 THEN NULL ELSE list[i - 1])

\* The headers of the free blocks of the layout.
FreeBlocks(s, walk) ==
    {Base + walk[i] : i \in {j \in 1 .. Len(walk) : IsFree(s, Base + walk[j])}}

\* The list holds each free block of the layout once and nothing else.
ListsFreeBlocks(s, list, walk) ==
    /\ {list[i] : i \in 1 .. Len(list)} = FreeBlocks(s, walk)
    /\ \A i \in 1 .. Len(list) : \A j \in 1 .. Len(list) : list[i] = list[j] => i = j

\* C40: free-list consistency.  In every reachable allocator state the free
\* list reachable from freeListHead is acyclic, its prev/next links are
\* mutually consistent, and it contains each free block of the physical
\* layout exactly once and no allocated or absorbed block.
C40_FreeListConsistent ==
    Running =>
        /\ Acyclic(mm)
        /\ Linked(mm, FreeList(mm))
        /\ ListsFreeBlocks(mm, FreeList(mm), Walk(mm))


\* ----------------------------------------------------------- an L1 hit
\* What a line is while it is not replaced: valid flag, tag and load_time.
Residents(level) ==
    [i \in DOMAIN level.sets |->
        [j \in DOMAIN level.sets[i].blocks |->
            <<level.sets[i].blocks[j].valid, level.sets[i].blocks[j].tag,
              level.sets[i].blocks[j].load_time>>]]

\* The access with result r of the cache c, if it hit in L1, left L2 as it
\* was, replaced no line of L1 and reported no event.
HitTouchesL1Only(c, r) ==
    r.report.l1Hit =>
        /\ r.c.l2_cache = c.l2_cache
        /\ Residents(r.c.l1_cache) = Residents(c.l1_cache)
        /\ r.c.l1_cache.evictions = c.l1_cache.evictions
        /\ r.report.events = <<>>
        /\ ~r.report.l2Accessed

\* C35: when access(a) hits in L1, nothing in L2 changes (no line's valid,
\* tag, load_time, last_access or access_count, nor L2's hits, misses,
\* evictions or global_time), no L1 line is replaced, and the report's events
\* list is empty.
C35_L1HitFrame ==
    \A physical_address \in Addresses :
        HitTouchesL1Only(cache, access(cache, physical_address))

\* The last access hit in L1 after accesses that missed and filled both
\* levels and evicted from L1.
C35_Witness ==
    /\ accessed # <<>>
    /\ report.l1Hit
    /\ cache.l1_cache.evictions > 0
    /\ cache.l2_cache.misses > 0
    /\ \E i \in DOMAIN cache.l2_cache.sets : Invalid(cache.l2_cache.sets[i]) = {}


\* ------------------------------------------------------ the lines of a set
\* All the lines of a level, as <<set index, line index>>.
LinesOf(level) ==
    {<<i, j>> : i \in DOMAIN level.sets, j \in 0 .. level.associativity - 1}

LineAt(level, at) == level.sets[at[1]].blocks[at[2]]

\* A line's load is its first access, and it has been accessed exactly when it
\* is valid.
LineInv(block) ==
    /\ block.load_time <= block.last_access
    /\ (block.access_count >= 1) <=> block.valid

LinesInv(level) == \A at \in LinesOf(level) : LineInv(LineAt(level, at))

\* The lines valid in the level before are valid in the level after.
StayValid(before, after) ==
    \A at \in LinesOf(before) : LineAt(before, at).valid => LineAt(after, at).valid

\* C37: per-line invariant.  In every reachable cache state and for every
\* line of both levels, load_time <= last_access, and access_count >= 1 holds
\* if and only if the line is valid; a line that became valid never becomes
\* invalid again.
C37_LineInvariant ==
    /\ [](LinesInv(cache.l1_cache) /\ LinesInv(cache.l2_cache))
    /\ [][StayValid(cache.l1_cache, cache.l1_cache')
          /\ StayValid(cache.l2_cache, cache.l2_cache')]_vars

\* Three accesses done: a line of L1 was hit after its load under LRU, a line
\* was counted under LFU, a line was replaced, and a line is still invalid.
C37_Witness ==
    /\ Len(accessed) = MaxAccesses
    /\ cache.l1_cache.evictions + cache.l2_cache.evictions > 0
    /\ \E n \in Levels :
          \E at \in LinesOf(LevelOf(cache, n)) :
              LineAt(LevelOf(cache, n), at).load_time < LineAt(LevelOf(cache, n), at).last_access
    /\ \E n \in Levels :
          \E at \in LinesOf(LevelOf(cache, n)) :
              LineAt(LevelOf(cache, n), at).access_count > 1
    /\ \E n \in Levels :
          \E at \in LinesOf(LevelOf(cache, n)) : ~LineAt(LevelOf(cache, n), at).valid


\* ------------------------------------------- a cache that stays FIFO
\* The simulator constructed with the default policy, FIFO, and accessed
\* only: no level's policy is ever changed.
MaxFifoAccesses == 6

FifoInit ==
    /\ mm = initializeMemory
    /\ last = [op |-> "init", arg |-> M, ok |-> TRUE, ptr |-> NULL]
    /\ freedIds = {}
    /\ freedPtrs = {}
    /\ \E l1 \in L1Geometries, l2 \in L2Geometries, shl64 \in Shl64 :
           /\ shl64 = 1 \/ WideTag(l1) \/ WideTag(l2)
           /\ cache = CacheSimulator(l1, l2, FIFO, shl64)
    /\ report = NewReport
    /\ accessed = <<>>
    /\ cli = MemorySimulatorCLI

FifoAccess(physical_address) ==
    /\ Len(accessed) < MaxFifoAccesses
    /\ Accessed(physical_address, access(cache, physical_address))
    /\ UNCHANGED <<mmVars, cliVars>>

FifoNext == \E physical_address \in Addresses : FifoAccess(physical_address)

FifoSpec == FifoInit /\ [][FifoNext]_vars

\* The lines of the set s that are replaced in the set t: valid before, and
\* loaded again since.
Replaced(s, t) ==
    {i \in DOMAIN s.blocks :
        /\ s.blocks[i].valid
        /\ \/ t.blocks[i].tag # s.blocks[i].tag
           \/ t.blocks[i].load_time # s.blocks[i].load_time}

\* The line of the set loaded last.
Newest(s) ==
    CHOOSE i \in DOMAIN s.blocks :
        \A j \in DOMAIN s.blocks : s.blocks[j].load_time <= s.blocks[i].load_time

\* From the set s to the set t: a line replaced was the front of the queue
\* (line 0 before the queue exists), was loaded before every other line of
\* the set, is the line after the one loaded last, and went to the back of
\* the queue; where no line is replaced the queue is as it was.
RoundRobin(s, t) ==
    /\ \A v \in Replaced(s, t) :
          /\ v = IF s.fifoQueue = <<>> THEN 0 ELSE Head(s.fifoQueue)
          /\ \A i \in DOMAIN s.blocks \ {v} :
                s.blocks[v].load_time < s.blocks[i].load_time
          /\ v = (Newest(s) + 1) % s.associativity
          /\ t.fifoQueue # <<>>
          /\ t.fifoQueue[Len(t.fifoQueue)] = v
          /\ Len(t.fifoQueue) = s.associativity
    /\ Replaced(s, t) = {} => t.fifoQueue = s.fifoQueue

RoundRobinLevel(before, after) ==
    before.policy = FIFO =>
        \A i \in DOMAIN before.sets : RoundRobin(before.sets[i], after.sets[i])

RoundRobinBoth(c, d) ==
    /\ RoundRobinLevel(c.l1_cache, d.l1_cache)
    /\ RoundRobinLevel(c.l2_cache, d.l2_cache)

\* C36: FIFO round-robin equivalence.  When a level's policy is FIFO from
\* construction and is never changed, the slot-index queue (victim = front,
\* re-enqueued at the back) selects for every eviction the same victim as
\* true FIFO keyed on load_time (smallest load_time), so successive victims
\* of a set cycle through line indices 0, 1, ..., associativity - 1 in
\* order; probes never alter that order.
C36_FifoRoundRobin ==
    \A physical_address \in Addresses :
        RoundRobinBoth(cache, access(cache, physical_address).c)

\* A level has evicted three times from two-way sets, so that a set has
\* gone once round its lines, and the last access was a hit in L1.
C36_Witness ==
    /\ \E n \in Levels :
          /\ LevelOf(cache, n).evictions >= 3
          /\ LevelOf(cache, n).associativity = 2
          /\ \E i \in DOMAIN LevelOf(cache, n).sets :
                LevelOf(cache, n).sets[i].fifoQueue # <<>>
    /\ accessed # <<>>
    /\ report.l1Hit


\* ------------------------------------------------ the controller's commands
\* A command handler takes the controller c, the manager s and the simulator
\* k it points to, and returns them as it leaves them: [cli, mm, cache], and
\* with them what the command printed where a claim speaks of it.
\*
\* The caches of "init memory": L1 16KB, 64B block, 4-way; L2 64KB, 64B
\* block, 8-way, as <<size, block_size, associativity>>.
DefaultL1 == <<16 * 1024, 64, 4>>
DefaultL2 == <<64 * 1024, 64, 8>>

\* StatsManager::logMemoryAllocation(size, success)
logMemoryAllocation(stats, size, success) ==
    IF success
    THEN [stats EXCEPT !.totalAllocations = @ + 1, !.successfulAllocations = @ + 1]
    ELSE [stats EXCEPT !.totalAllocations = @ + 1, !.failedAllocations = @ + 1]

\* StatsManager::setCacheStats with the counters of the simulator k
setCacheStats(stats, k) ==
    [stats EXCEPT !.l1CacheHits = k.l1_cache.hits,
                  !.l1CacheMisses = k.l1_cache.misses,
                  !.l2CacheHits = k.l2_cache.hits,
                  !.l2CacheMisses = k.l2_cache.misses]

\* StatsManager::setFragmentationMetrics and setMemoryStats with the metrics
\* of the manager s
setMemoryMetrics(stats, s) ==
    [stats EXCEPT !.internalFragmentation = getInternalFragmentation(s),
                  !.externalFragmentation = getExternalFragmentation(s),
                  !.memoryUtilization = getMemoryUtilization(s),
                  !.totalMemory = M,
                  !.usedMemory = getUsedMemory(s),
                  !.freeMemory = getFreeMemory(s)]

\* "init memory <M>": a new manager; a new simulator only where there is
\* none; the id counter and the two maps reset.  The StatsManager is left.
handleInit_memory(c, s, k) ==
    [cli |-> [c EXCEPT !.initialized = TRUE,
                       !.cacheSimulator = TRUE,
                       !.nextBlockId = 1,
                       !.blockIdToAddress = << >>,
                       !.addressToBlockId = << >>],
     mm |-> initializeMemory,
     cache |-> IF c.cacheSimulator THEN k
               ELSE CacheSimulator(DefaultL1, DefaultL2, FIFO, 1)]


\* "init cache <l1> <l2>": a new simulator of the default policy.
handleInit_cache(c, s, k, l1, l2) ==
    [cli |-> [c EXCEPT !.cacheSimulator = TRUE],
     mm |-> s,
     cache |-> CacheSimulator(l1, l2, FIFO, 1)]

\* "set allocator <strategy>"
handleSet_allocator(c, s, k, strategy) ==
    [cli |-> c, mm |-> setAllocationStrategy(s, strategy), cache |-> k]

\* "set cache_policy <policy>"
handleSet_cache_policy(c, s, k, policy) ==
    [cli |-> c, mm |-> s,
     cache |-> IF c.cacheSimulator THEN setReplacementPolicy(k, policy) ELSE k]

\* handleMalloc taking an id for a failed allocation too.
handleMalloc_done_always(c, k, size, r) ==
    [cli |-> IF r.ptr # NULL
             THEN [c EXCEPT
                     !.nextBlockId = @ + 1,
                     !.blockIdToAddress = Put(@, c.nextBlockId, r.ptr),
                     !.addressToBlockId = Put(@, r.ptr, c.nextBlockId),
                     !.statsManager = logMemoryAllocation(@, size, TRUE)]
             ELSE [c EXCEPT
                     !.nextBlockId = @ + 1,
                     !.statsManager = logMemoryAllocation(@, size, FALSE)],
     mm |-> r.s,
     cache |-> k,
     blockId |-> IF r.ptr # NULL THEN c.nextBlockId ELSE 0]

\* "malloc <size>", r being what allocate(size) returned; blockId is the id
\* printed, 0 for none.
handleMalloc_done(c, k, size, r) ==
    [cli |-> IF r.ptr # NULL
             THEN [c EXCEPT
                     !.nextBlockId = @ + 1,
                     !.blockIdToAddress = Put(@, c.nextBlockId, r.ptr),
                     !.addressToBlockId = Put(@, r.ptr, c.nextBlockId),
                     !.statsManager = logMemoryAllocation(@, size, TRUE)]
             ELSE [c EXCEPT
                     !.statsManager = logMemoryAllocation(@, size, FALSE)],
     mm |-> r.s,
     cache |-> k,
     blockId |-> IF r.ptr # NULL THEN c.nextBlockId ELSE 0]

handleMalloc(c, s, k, size) == handleMalloc_done(c, k, size, allocate(s, size))

\* The two maps without the entries of the id and of the address.
Unmapped(c, blockId, ptr) ==
    [c EXCEPT !.blockIdToAddress = Erase(@, blockId),
              !.addressToBlockId = Erase(@, ptr)]


\* "free 0x<ptr>", r being what deallocate(ptr) returned: the call is made
\* whether or not the address is in addressToBlockId, and the maps lose
\* the entries only in the first case.
handleFree_address_done(c, k, ptr, r) ==
    [cli |-> IF r.ok /\ ptr \in DOMAIN c.addressToBlockId
             THEN Unmapped(c, c.addressToBlockId[ptr], ptr)
             ELSE c,
     mm |-> r.s,
     cache |-> k,
     success |-> r.ok]

handleFree_address(c, s, k, ptr) ==
    handleFree_address_done(c, k, ptr, deallocate(s, ptr))


\* "free <blockId>" for an id of blockIdToAddress, r being what
\* deallocate(blockIdToAddress[blockId]) returned.
handleFree_id_done(c, k, blockId, r) ==
    [cli |-> IF r.ok THEN Unmapped(c, blockId, c.blockIdToAddress[blockId]) ELSE c,
     mm |-> r.s,
     cache |-> k,
     success |-> r.ok]

\* "free <blockId>"
handleFree_id(c, s, k, blockId) ==
    IF blockId \in DOMAIN c.blockIdToAddress
    THEN handleFree_id_done(c, k, blockId, deallocate(s, c.blockIdToAddress[blockId]))
    ELSE [cli |-> c, mm |-> s, cache |-> k, success |-> FALSE]

\* "access <address>", r being what access(address) returned
handleAccess_done(c, s, r) ==
    [cli |-> [c EXCEPT !.statsManager = setCacheStats(@, r.c)],
     mm |-> s,
     cache |-> r.c,
     report |-> r.report]

handleAccess(c, s, k, physical_address) ==
    IF c.cacheSimulator THEN handleAccess_done(c, s, access(k, physical_address))
    ELSE [cli |-> c, mm |-> s, cache |-> k, report |-> NewReport]

\* "stats"
handleStats(c, s, k) ==
    [cli |-> [c EXCEPT !.statsManager =
                 IF c.cacheSimulator
                 THEN setCacheStats(setMemoryMetrics(@, s), k)
                 ELSE setMemoryMetrics(@, s)],
     mm |-> s,
     cache |-> k]

\* ------------------------------------------------- the controller's session
MaxMallocs == 3           \* malloc commands per session
MaxCliAccesses == 1       \* access commands per simulator
\* malloc sizes: one that fits three times, the whole arena, and 2^64 - H
CliSizes == {8, M, -H}
\* free by id: no id, and the ids the mallocs can print
CliIds == 0 .. MaxMallocs
\* free by address: the start of the arena and the addresses malloc 8 returns
CliAddrs == {Base, Base + H, Base + 8 + H + H}
CliStrategies == {FIRST_FIT, BEST_FIT}
CliPolicies == {FIFO, LRU}
CliAddresses == {0}
\* "init cache 4 1 2 4 1 2"
CliL1 == <<4, 1, 2>>
CliL2 == <<4, 1, 2>>

\* The controller before its first command.  last, freedIds, freedPtrs and
\* accessed record the calls made on a manager or a simulator directly, and
\* record nothing in a session of commands.
CliInit ==
    /\ mm = NULL
    /\ last = [op |-> "none", arg |-> 0, ok |-> FALSE, ptr |-> NULL]
    /\ freedIds = {}
    /\ freedPtrs = {}
    /\ cache = NULL
    /\ report = NewReport
    /\ accessed = <<>>
    /\ cli = MemorySimulatorCLI

history == <<last, freedIds, freedPtrs, accessed>>

\* The commands that need the manager find it, and the process is alive.
Ready == cli.initialized /\ mm.fault = "none"

\* The command has left the controller, the manager and the simulator as r.
Handled(r) ==
    /\ cli' = r.cli
    /\ mm' = r.mm
    /\ cache' = r.cache
    /\ UNCHANGED history

InitMemory ==
    /\ cli.initialized => mm.fault = "none"
    /\ Handled(handleInit_memory(cli, mm, cache))
    /\ UNCHANGED report

InitCache ==
    /\ cli.initialized => mm.fault = "none"
    /\ Handled(handleInit_cache(cli, mm, cache, CliL1, CliL2))
    /\ UNCHANGED report

SetAllocator(strategy) ==
    /\ Ready
    /\ Handled(handleSet_allocator(cli, mm, cache, strategy))
    /\ UNCHANGED report

SetCachePolicy(policy) ==
    /\ Ready
    /\ Handled(handleSet_cache_policy(cli, mm, cache, policy))
    /\ UNCHANGED report

Malloc(size) ==
    /\ Ready
    /\ cli.statsManager.totalAllocations < MaxMallocs
    /\ Handled(handleMalloc(cli, mm, cache, size))
    /\ UNCHANGED report

FreeAddress(ptr) ==
    /\ Ready
    /\ Handled(handleFree_address(cli, mm, cache, ptr))
    /\ UNCHANGED report

FreeId(blockId) ==
    /\ Ready
    /\ Handled(handleFree_id(cli, mm, cache, blockId))
    /\ UNCHANGED report

CliAccess(physical_address) ==
    /\ Ready
    /\ cli.cacheSimulator
    /\ cache.l1_cache.global_time < MaxCliAccesses
    /\ Handled(handleAccess(cli, mm, cache, physical_address))
    /\ report' = handleAccess(cli, mm, cache, physical_address).report

Stats ==
    /\ Ready
    /\ Handled(handleStats(cli, mm, cache))
    /\ UNCHANGED report

CliNext ==
    \/ InitMemory
    \/ InitCache
    \/ \E strategy \in CliStrategies : SetAllocator(strategy)
    \/ \E policy \in CliPolicies : SetCachePolicy(policy)
    \/ \E size \in CliSizes : Malloc(size)
    \/ \E ptr \in CliAddrs : FreeAddress(ptr)
    \/ \E blockId \in CliIds : FreeId(blockId)
    \/ \E physical_address \in CliAddresses : CliAccess(physical_address)
    \/ Stats

CliSpec == CliInit /\ [][CliNext]_vars


\* ------------------------------------------------------ the ids printed
\* The malloc r printed the id the manager stored in the block it returned.
PrintsStoredId(r) ==
    r.blockId # 0 =>
        Id(r.mm, r.cli.blockIdToAddress[r.blockId] - H) = r.blockId

\* C39: the id the controller prints for a successful malloc always equals
\* the block_id the allocator stored for that block: the controller's own id
\* counter and the allocator's id counter stay equal after every sequence of
\* successful and failed malloc, free and "init memory" commands.
C39_SameIds ==
    Ready =>
        /\ cli.nextBlockId = mm.nextBlockId
        /\ \A size \in CliSizes : PrintsStoredId(handleMalloc(cli, mm, cache, size))

\* A malloc succeeded before the last "init memory"; since it, one succeeded
\* and one failed, and the block was freed.
C39_Witness ==
    /\ Ready
    /\ cli.nextBlockId = 2
    /\ cli.statsManager.successfulAllocations = 2
    /\ cli.statsManager.failedAllocations = 1
    /\ DOMAIN mm.idToHeader = {}
    /\ DOMAIN cli.blockIdToAddress = {}


\* ------------------------------------------------------ the two maps
\* The controller c holds an entry for the user address ptr in one of its maps.
Mapped(c, ptr) ==
    \/ ptr \in DOMAIN c.addressToBlockId
    \/ \E blockId \in DOMAIN c.blockIdToAddress : c.blockIdToAddress[blockId] = ptr

SameMaps(c, d) ==
    /\ d.blockIdToAddress = c.blockIdToAddress
    /\ d.addressToBlockId = c.addressToBlockId

\* The free command that left r and called deallocate(ptr) on the manager s
\* of the controller c: if the call succeeded the maps hold no entry for the
\* block it freed, and if the command failed the maps are as they were.
FreeKeepsMaps(c, s, ptr, r) ==
    IF r.success
    THEN ~Mapped(r.cli, getHeader(s, ptr) + H)
    ELSE SameMaps(c, r.cli)

\* C31: controller mapping persistence.  After a free command (by block id
\* or by hex address) on which the allocator's deallocate succeeded, neither
\* the id-to-address map nor the address-to-id map still holds an entry for
\* the freed block; after a free command that failed, both maps are
\* unchanged.
C31_MappingPersistence ==
    Ready =>
        /\ \A ptr \in CliAddrs :
              FreeKeepsMaps(cli, mm, ptr, handleFree_address(cli, mm, cache, ptr))
        /\ \A blockId \in DOMAIN cli.blockIdToAddress :
              FreeKeepsMaps(cli, mm, cli.blockIdToAddress[blockId],
                            handleFree_id(cli, mm, cache, blockId))
        /\ \A blockId \in CliIds \ DOMAIN cli.blockIdToAddress :
              SameMaps(cli, handleFree_id(cli, mm, cache, blockId).cli)


\* ------------------------------------------------------ free by id
\* The command "free <blockId>" that left r on the manager s of the
\* controller c: if it succeeded, the block it released carried blockId, the
\* id malloc printed for it.
FreesOwnBlock(c, s, blockId, r) ==
    r.success =>
        /\ blockId \in DOMAIN c.blockIdToAddress
        /\ Id(s, getHeader(s, c.blockIdToAddress[blockId])) = blockId
        /\ blockId \in DOMAIN s.idToHeader
        /\ blockId \notin DOMAIN r.mm.idToHeader

\* C38: a controller "free <id>" command never frees an allocation other
\* than the one to which that id was issued by malloc: for every sequence of
\* malloc and free commands (free by id or by hex address), if "free <id>"
\* succeeds then the block released in the allocator is the block that was
\* allocated when id was printed, and a still-live allocation can always be
\* freed by its own id.
C38_FreeByOwnId ==
    Ready =>
        /\ \A blockId \in CliIds :
              FreesOwnBlock(cli, mm, blockId, handleFree_id(cli, mm, cache, blockId))
        /\ \A blockId \in DOMAIN mm.idToHeader :
              handleFree_id(cli, mm, cache, blockId).success


\* ------------------------------------------------------ re-initialization
\* The level is as initCacheLevel leaves one with the default policy: no
\* line valid or touched, no queue, and every counter zero.
FreshLevel(level) ==
    /\ level.policy = FIFO
    /\ level.hits = 0
    /\ level.misses = 0
    /\ level.evictions = 0
    /\ level.global_time = 0
    /\ \A i \in DOMAIN level.sets : level.sets[i] = EmptySet(level.associativity)

\* The allocation statistics are those of a new StatsManager.
FreshStats(stats) ==
    /\ stats.totalAllocations = 0
    /\ stats.successfulAllocations = 0
    /\ stats.failedAllocations = 0

\* "init memory" has left r: a manager of one free block whose ids start at
\* 1, empty maps, a simulator with nothing in it and statistics of nothing.
Reinitialized(r) ==
    /\ r.mm = initializeMemory
    /\ r.cli.initialized
    /\ r.cli.nextBlockId = 1
    /\ DOMAIN r.cli.blockIdToAddress = {}
    /\ DOMAIN r.cli.addressToBlockId = {}
    /\ r.cache.defaultPolicy = FIFO
    /\ FreshLevel(r.cache.l1_cache)
    /\ FreshLevel(r.cache.l2_cache)
    /\ FreshStats(r.cli.statsManager)

\* C32: re-initialization.  After an "init memory" command issued in a
\* session that already ran commands, no earlier state survives: the
\* allocator is a single free block with ids restarting at 1, the id/address
\* mapping is empty, and the cache contents, cache policy, cache hit/miss
\* counters and allocation statistics are those of a freshly constructed
\* system.
C32_Reinitialization ==
    Ready => Reinitialized(handleInit_memory(cli, mm, cache))

====
